---------------------------- MODULE Spec2Model ----------------------------
(***************************************************************************)
(* Model of autosig.py, detect_and_hide_signature_layers (lines 169-270). *)
(*                                                                         *)
(* A PSD document is a finite sequence of layers indexed 0..len(psd)-1.    *)
(* Each layer has a mutable visible flag and a bbox (a 4-tuple, or None).  *)
(* A composite is a function of the visibility flags only, so an image is  *)
(* modelled by the visibility assignment it was rendered under.            *)
(*                                                                         *)
(* Difference scores are kept in hundredths (0.01 is 1, 5.0 is 500, 25.0   *)
(* is 2500).  layer_size_percent is the float (layer_area/image_area)*100; *)
(* it is kept as the exact numerator layer_area*100 over the denominator   *)
(* image_area and compared by cross multiplication.  For integer areas of  *)
(* realistic size the float comparison with 15 and 50 agrees with the      *)
(* exact one.                                                              *)
(***************************************************************************)
EXTENDS Integers, Sequences, FiniteSets, TLC

\* Largest number of layers in a document.
MaxLayers == 2

\* autosig.py:221   is_signature_sized = layer_size_percent < 15
SmallPercent == 15
\* autosig.py:224   if layer_size_percent > 50: continue
SkipPercent == 50
\* autosig.py:254   layer_size_percent < 50
MediumPercent == 50
\* autosig.py:251   diff > 0.01      (hundredths)
SmallDiffMin == 1
\* autosig.py:254   5.0 < diff < 25.0   (hundredths)
MediumDiffMin == 500
MediumDiffMax == 2500

\* layer.bbox of a layer without bounds (None / empty)
NoBBox == <<>>

\* reference.size: a 10x10 canvas, and a degenerate canvas of zero area
Canvases == {<<10, 10>>, <<0, 10>>}

\* layer.bbox values: 5%, 15%, 30%, 50%, 60% and 100% of the 10x10 canvas,
\* or none
BBoxes == {NoBBox, <<0, 0, 1, 5>>, <<2, 0, 5, 5>>, <<0, 0, 5, 6>>,
           <<0, 0, 5, 10>>, <<4, 0, 10, 10>>, <<0, 0, 10, 10>>}

\* values calculate_image_difference can return, in hundredths:
\* 0.0, 0.01, 0.02, 0.5, 4.9, 5.0, 10.0, 12.0, 25.0, 100.0
Scores == {0, 1, 2, 50, 490, 500, 1000, 1200, 2500, 10000}

\* hasattr(layer, 'bbox') and layer.bbox
HasBBox(layer) == layer.bbox # NoBBox

\* layer_width * layer_height for bbox (x1, y1, x2, y2)
LayerArea(bbox) == (bbox[3] - bbox[1]) * (bbox[4] - bbox[2])

\* the local layer_size_percent before its first assignment
Unbound == [bound |-> FALSE, num |-> 0]

\* value < p, for value = num / image_area percent
PercentLT(num, area, p) == num < p * area
\* value > p
PercentGT(num, area, p) == num > p * area

VARIABLES
    psd,                \* the document: [0..n-1 -> [visible, bbox]]
    size,               \* size of every composite of the document
    pc,                 \* position in detect_and_hide_signature_layers
    reference,          \* the reference composite (visibility it shows)
    image_area,         \* width * height
    originally_hidden,  \* list of indices
    signature_layers,   \* list of indices
    i,                  \* loop index of the second for loop
    is_signature_sized, \* local of the loop body
    layer_size_percent, \* local of the loop body; survives iterations
    test_image,         \* the last test composite
    diff,               \* the last difference score
    result,             \* returned tuple, or the exception raised
    entry_visible,      \* history: visible flags at call entry
    writes,             \* history: number of assignments to layer.visible
    composite_calls,    \* history: psd.composite calls (-1: reference)
    outcome,            \* history: per layer, the score measured for it
    caught,             \* history: layers whose probe ran the except clause
    img1,               \* calculate_image_difference: first argument
    img2,               \* calculate_image_difference: second argument
    normalized,         \* calculate_image_difference: value returned
    layer_names,        \* hide_layers_in_psd: layer.name of every layer
    layers_to_hide,     \* hide_layers_in_psd: the argument
    next_spec,          \* hide_layers_in_psd: position of the outer loop
    hidden_count,       \* hide_layers_in_psd: local
    hide_result,        \* hide_layers_in_psd: value returned
    conflict_call,      \* handle_file_conflict: the arguments and the input
    conflict_return,    \* handle_file_conflict: value returned
    args,               \* process_image_files: the arguments
    image_files,        \* process_image_files: the input files, in order
    file_index,         \* process_image_files: position of the loop
    result_image,       \* process_image_files: local
    should_process,     \* process_image_files: local
    processed_count,    \* process_image_files: local
    skipped_files,      \* process_image_files: local
    global_action,      \* process_image_files: local
    outputs,            \* the files whose output was saved
    conflict_calls,     \* the files handle_file_conflict was called for
    messages,           \* what was printed, in order
    iteration_entry,    \* the locals as they were when the file was taken
    source_image,       \* process_image_files: local
    saved_images,       \* the images saved, with their files, in order
    interrupts,         \* the files a KeyboardInterrupt was raised at
    directory,          \* the names of the files in the directory
    select_args,        \* process_image_files: suffix, exclude_patterns, ...
    found_files,        \* process_image_files: image_files of the run
    written,            \* the outputs written, with their input files
    run,                \* the number of the run of process_image_files
    auto_hide_signature, \* load_image_file: parameter
    opened_visible,     \* the visible flags PSDImage.open returned
    loaded_image,       \* load_image_file: the composite returned
    earlier_calls,      \* the calls of the detection that returned before
    first_call          \* what the first of two calls returned and left

\* the state of detect_and_hide_signature_layers besides psd and pc
detect_state == <<size, reference, image_area, originally_hidden,
                  signature_layers, i, is_signature_sized,
                  layer_size_percent, test_image, diff, result,
                  entry_visible, writes, composite_calls, outcome, caught>>

\* the state of calculate_image_difference
calculate_state == <<img1, img2, normalized>>

\* the state of hide_layers_in_psd besides psd and pc
hide_state == <<layer_names, layers_to_hide, next_spec, hidden_count,
                hide_result>>

\* the state of handle_file_conflict
conflict_state == <<conflict_call, conflict_return>>

\* the state of process_image_files besides pc
process_state == <<args, image_files, file_index, result_image,
                   should_process, processed_count, skipped_files,
                   global_action, outputs, conflict_calls, messages,
                   iteration_entry, source_image, saved_images, interrupts>>

\* the part of it only Load, Save and the interrupts change
process_record == <<source_image, saved_images, interrupts>>

\* the state of the selection of the input files
select_state == <<directory, select_args, found_files, written, run>>

\* the state of load_image_file besides that of the two functions it calls
load_state == <<auto_hide_signature, opened_visible, loaded_image>>

\* the record of an earlier call of detect_and_hide_signature_layers
repeat_state == <<earlier_calls, first_call>>

\* the state no step of detect_and_hide_signature_layers touches
outside_detect == <<calculate_state, hide_state, conflict_state,
                    process_state, select_state, load_state, repeat_state>>

\* the state calculate_image_difference does not touch
outside_calculate == <<psd, detect_state, hide_state, conflict_state,
                       process_state, select_state, load_state,
                       repeat_state>>

\* the state no step of hide_layers_in_psd touches
outside_hide == <<detect_state, calculate_state, conflict_state,
                  process_state, select_state, load_state, repeat_state>>

\* the state handle_file_conflict does not touch
outside_conflict == <<psd, detect_state, calculate_state, hide_state,
                      process_state, select_state, load_state,
                      repeat_state>>

\* the state no step of process_image_files touches
outside_process == <<psd, detect_state, calculate_state, hide_state,
                     conflict_state, select_state, load_state,
                     repeat_state>>

\* the state the selection of the input files does not touch
outside_select == <<psd, detect_state, calculate_state, hide_state,
                    conflict_state, process_state, load_state,
                    repeat_state>>

vars == <<psd, pc, detect_state, calculate_state, hide_state,
          conflict_state, process_state, select_state, load_state,
          repeat_state>>

\* class of layers: a visible flag and a bbox
Layers == [visible : BOOLEAN, bbox : BBoxes]

\* len(psd)
Len_psd == Cardinality(DOMAIN psd)

\* the visibility flags a composite is rendered from
Visibility == [j \in DOMAIN psd |-> psd[j].visible]

\* layer.visible = v for layer j
SetVisible(doc, j, v) == [doc EXCEPT ![j].visible = v]

\* variant of HideLayer: the assignment of line 228 is missing
HideLayer_missing(doc, j) == doc

\* line 228: layer.visible = False
HideLayer(doc, j) == SetVisible(doc, j, FALSE)

\* variant of RestoreLayer: the layer is not restored
RestoreLayer_missing(doc, j) == doc

\* lines 260 and 264: layer.visible = True
RestoreLayer(doc, j) == SetVisible(doc, j, TRUE)

\* variant of TooLarge: the ratio is compared, not the percentage
TooLarge_ratio(num, area) == num > SkipPercent * 100 * area

\* variant of TooLarge: only layers of the full canvas size are skipped
TooLarge_full(num, area) == num >= 100 * area

\* line 224: layer_size_percent > 50
TooLarge(num, area) == PercentGT(num, area, SkipPercent)

\* line 221: layer_size_percent < 15
SignatureSized(num, area) == PercentLT(num, area, SmallPercent)

\* variant of HiddenUpTo: the list starts as [0] instead of []
RECURSIVE HiddenUpTo_seeded(_, _)
HiddenUpTo_seeded(doc, k) ==
    IF k = 0 THEN <<0>>
    ELSE IF ~doc[k - 1].visible
         THEN Append(HiddenUpTo_seeded(doc, k - 1), k - 1)
         ELSE HiddenUpTo_seeded(doc, k - 1)

\* variant of HiddenUpTo: the last layer is not examined
RECURSIVE HiddenUpTo_short(_, _)
HiddenUpTo_short(doc, k) ==
    IF k <= 1 THEN <<>>
    ELSE IF ~doc[k - 2].visible
         THEN Append(HiddenUpTo_short(doc, k - 1), k - 2)
         ELSE HiddenUpTo_short(doc, k - 1)

\* indices j in 0..k-1, in order, with not psd[j].is_visible()
\* (for the top-level layers the loop iterates over, is_visible() is the
\* layer's own visible flag)
RECURSIVE HiddenUpTo(_, _)
HiddenUpTo(doc, k) ==
    IF k = 0 THEN <<>>
    ELSE IF ~doc[k - 1].visible
         THEN Append(HiddenUpTo(doc, k - 1), k - 1)
         ELSE HiddenUpTo(doc, k - 1)

\* x in list
InList(x, list) == \E k \in 1..Len(list) : list[k] = x

NoImage == <<>>

\* a three-layer document on the 10x10 canvas: Background over the whole
\* canvas, Content over 40% of it, Signature over 8% of it, all visible
EndToEndDocument ==
    (0 :> [visible |-> TRUE, bbox |-> <<0, 0, 10, 10>>]) @@
    (1 :> [visible |-> TRUE, bbox |-> <<0, 0, 4, 10>>]) @@
    (2 :> [visible |-> TRUE, bbox |-> <<8, 6, 10, 10>>])
NoResult == [kind |-> "none", error |-> "", value |-> <<>>]

\* outcome of a layer no score was measured for / whose probe raised
NotMeasured == -2
Raised == -1

\* no call of calculate_image_difference is modelled
CalculateIdle ==
    /\ img1 = NoImage
    /\ img2 = NoImage
    /\ normalized = NoResult

\* layers_to_hide=None
NoneList == [is_none |-> TRUE, items |-> <<>>]

\* no call of hide_layers_in_psd is modelled
HideIdle ==
    /\ layer_names = <<>>
    /\ layers_to_hide = NoneList
    /\ next_spec = 0
    /\ hidden_count = 0
    /\ hide_result = NoResult

\* None, where the code has None or a number
None == -1

\* None, where the code has None or a str
NoAction == "None"

\* no call of handle_file_conflict is modelled
ConflictIdle ==
    /\ conflict_call = <<>>
    /\ conflict_return = <<>>

\* no call of process_image_files is modelled
ProcessIdle ==
    /\ args = <<>>
    /\ image_files = <<>>
    /\ file_index = 0
    /\ result_image = <<>>
    /\ should_process = FALSE
    /\ processed_count = 0
    /\ skipped_files = <<>>
    /\ global_action = NoAction
    /\ outputs = {}
    /\ conflict_calls = <<>>
    /\ messages = <<>>
    /\ iteration_entry = <<>>
    /\ source_image = <<>>
    /\ saved_images = <<>>
    /\ interrupts = <<>>

\* no selection of input files is modelled
SelectIdle ==
    /\ directory = {}
    /\ select_args = <<>>
    /\ found_files = {}
    /\ written = {}
    /\ run = 0

\* no call of load_image_file is modelled
LoadIdle ==
    /\ auto_hide_signature = FALSE
    /\ opened_visible = <<>>
    /\ loaded_image = NoImage

\* no earlier call of detect_and_hide_signature_layers is modelled
RepeatIdle ==
    /\ earlier_calls = 0
    /\ first_call = NoResult

Init ==
    /\ \/ \E n \in 0..MaxLayers : psd \in [0..(n - 1) -> Layers]
       \/ psd = EndToEndDocument
    /\ size \in Canvases
    /\ pc = "entry"
    /\ reference = NoImage
    /\ image_area = 0
    /\ originally_hidden = <<>>
    /\ signature_layers = <<>>
    /\ i = 0
    /\ is_signature_sized = FALSE
    /\ layer_size_percent = Unbound
    /\ test_image = NoImage
    /\ diff = 0
    /\ result = NoResult
    /\ entry_visible = [j \in DOMAIN psd |-> psd[j].visible]
    /\ writes = [j \in DOMAIN psd |-> 0]
    /\ composite_calls = <<>>
    /\ outcome = [j \in DOMAIN psd |-> NotMeasured]
    /\ caught = {}
    /\ CalculateIdle
    /\ HideIdle
    /\ ConflictIdle
    /\ ProcessIdle
    /\ SelectIdle
    /\ LoadIdle
    /\ RepeatIdle

\* lines 186-200: the reference composite renders; record hidden layers
Reference ==
    /\ pc = "entry"
    /\ reference' = Visibility
    /\ image_area' = size[1] * size[2]
    /\ originally_hidden' = HiddenUpTo(psd, Len_psd)
    /\ signature_layers' = <<>>
    /\ composite_calls' = Append(composite_calls, -1)
    /\ i' = 0
    /\ pc' = "loop"
    /\ UNCHANGED <<psd, size, is_signature_sized, layer_size_percent,
                   test_image, diff, result, entry_visible, writes, outcome,
                   caught>>
    /\ UNCHANGED outside_detect

\* variant of line 188: the reference render sits after the recording of
\* the hidden layers (lines 197-200) and fails there
ReferenceFails_late ==
    /\ pc = "entry"
    /\ originally_hidden' = HiddenUpTo(psd, Len_psd)
    /\ composite_calls' = Append(composite_calls, -1)
    /\ result' = [kind |-> "raised", error |-> "composite", value |-> <<>>]
    /\ pc' = "raised"
    /\ UNCHANGED <<psd, size, reference, image_area,
                   signature_layers, i, is_signature_sized,
                   layer_size_percent, test_image, diff, entry_visible,
                   writes, outcome, caught>>
    /\ UNCHANGED outside_detect

\* line 188: psd.composite raises, outside any try
ReferenceFails ==
    /\ pc = "entry"
    /\ composite_calls' = Append(composite_calls, -1)
    /\ result' = [kind |-> "raised", error |-> "composite", value |-> <<>>]
    /\ pc' = "raised"
    /\ UNCHANGED <<psd, size, reference, image_area, originally_hidden,
                   signature_layers, i, is_signature_sized,
                   layer_size_percent, test_image, diff, entry_visible,
                   writes, outcome, caught>>
    /\ UNCHANGED outside_detect

\* lines 203-205: the layer was hidden at entry
SkipHidden ==
    /\ pc = "loop"
    /\ i < Len_psd
    /\ InList(i, originally_hidden)
    /\ i' = i + 1
    /\ UNCHANGED <<psd, size, pc, reference, image_area, originally_hidden,
                   signature_layers, is_signature_sized, layer_size_percent,
                   test_image, diff, result, entry_visible, writes,
                   composite_calls, outcome, caught>>
    /\ UNCHANGED outside_detect

\* line 217 with image_area = 0: ZeroDivisionError, outside the try
ZeroDivision ==
    /\ pc = "loop"
    /\ i < Len_psd
    /\ ~InList(i, originally_hidden)
    /\ HasBBox(psd[i])
    /\ image_area = 0
    /\ is_signature_sized' = FALSE
    /\ result' = [kind |-> "raised", error |-> "ZeroDivisionError",
                  value |-> <<>>]
    /\ pc' = "raised"
    /\ UNCHANGED <<psd, size, reference, image_area, originally_hidden,
                   signature_layers, i, layer_size_percent, test_image, diff,
                   entry_visible, writes, composite_calls, outcome, caught>>
    /\ UNCHANGED outside_detect

\* lines 208-225: a layer with bounds over 50% of the canvas
SkipLarge ==
    /\ pc = "loop"
    /\ i < Len_psd
    /\ ~InList(i, originally_hidden)
    /\ HasBBox(psd[i])
    /\ image_area # 0
    /\ LET num == LayerArea(psd[i].bbox) * 100 IN
       /\ TooLarge(num, image_area)
       /\ layer_size_percent' = [bound |-> TRUE, num |-> num]
       /\ is_signature_sized' = SignatureSized(num, image_area)
    /\ i' = i + 1
    /\ UNCHANGED <<psd, size, pc, reference, image_area, originally_hidden,
                   signature_layers, test_image, diff, result, entry_visible,
                   writes, composite_calls, outcome, caught>>
    /\ UNCHANGED outside_detect

\* lines 208-228: the layer is a candidate; hide it temporarily
Hide ==
    /\ pc = "loop"
    /\ i < Len_psd
    /\ ~InList(i, originally_hidden)
    /\ IF HasBBox(psd[i])
       THEN /\ image_area # 0
            /\ LET num == LayerArea(psd[i].bbox) * 100 IN
               /\ ~TooLarge(num, image_area)
               /\ layer_size_percent' = [bound |-> TRUE, num |-> num]
               /\ is_signature_sized' = SignatureSized(num, image_area)
       ELSE /\ is_signature_sized' = FALSE
            /\ UNCHANGED layer_size_percent
    /\ psd' = HideLayer(psd, i)
    /\ writes' = [writes EXCEPT ![i] = @ + 1]
    /\ pc' = "composite"
    /\ UNCHANGED <<size, reference, image_area, originally_hidden,
                   signature_layers, i, test_image, diff, result,
                   entry_visible, composite_calls, outcome, caught>>
    /\ UNCHANGED outside_detect

\* variant of Except: the handler restores the layer and leaves the loop
Except_break ==
    /\ psd' = RestoreLayer(psd, i)
    /\ writes' = [writes EXCEPT ![i] = @ + 1]
    /\ caught' = caught \cup {i}
    /\ i' = Len_psd
    /\ pc' = "loop"

\* variant of Except: the handler restores the layer and raises again
Except_reraise ==
    /\ psd' = RestoreLayer(psd, i)
    /\ writes' = [writes EXCEPT ![i] = @ + 1]
    /\ caught' = caught \cup {i}
    /\ i' = i
    /\ pc' = "raised"

\* lines 262-264: except Exception: layer.visible = True; next layer
Except ==
    /\ psd' = RestoreLayer(psd, i)
    /\ writes' = [writes EXCEPT ![i] = @ + 1]
    /\ caught' = caught \cup {i}
    /\ i' = i + 1
    /\ pc' = "loop"

\* variant of Composite: the composite is rendered a second time
Composite_twice ==
    /\ pc = "composite"
    /\ test_image' = Visibility
    /\ composite_calls' = Append(Append(composite_calls, i), i)
    /\ pc' = "measure"
    /\ UNCHANGED <<psd, size, reference, image_area, originally_hidden,
                   signature_layers, i, is_signature_sized,
                   layer_size_percent, diff, result, entry_visible, writes,
                   outcome, caught>>
    /\ UNCHANGED outside_detect

\* line 232: the test composite renders
Composite ==
    /\ pc = "composite"
    /\ test_image' = Visibility
    /\ composite_calls' = Append(composite_calls, i)
    /\ pc' = "measure"
    /\ UNCHANGED <<psd, size, reference, image_area, originally_hidden,
                   signature_layers, i, is_signature_sized,
                   layer_size_percent, diff, result, entry_visible, writes,
                   outcome, caught>>
    /\ UNCHANGED outside_detect

\* line 232: the test composite raises
CompositeFails ==
    /\ pc = "composite"
    /\ composite_calls' = Append(composite_calls, i)
    /\ outcome' = [outcome EXCEPT ![i] = Raised]
    /\ Except
    /\ UNCHANGED <<size, reference, image_area, originally_hidden,
                   signature_layers, is_signature_sized, layer_size_percent,
                   test_image, diff, result, entry_visible>>
    /\ UNCHANGED outside_detect

\* lines 236-244: crop or calculate_image_difference raises
MeasureFails ==
    /\ pc = "measure"
    /\ outcome' = [outcome EXCEPT ![i] = Raised]
    /\ Except
    /\ UNCHANGED <<size, reference, image_area, originally_hidden,
                   signature_layers, is_signature_sized, layer_size_percent,
                   test_image, diff, result, entry_visible, composite_calls>>
    /\ UNCHANGED outside_detect

\* variant of SmallRule: the threshold is inclusive
SmallRule_inclusive(sized, d) == sized /\ d >= SmallDiffMin

\* line 251: is_signature_sized and diff > 0.01
SmallRule(sized, d) == sized /\ d > SmallDiffMin

\* variant of MediumRule: the upper end of the band is inclusive
MediumRule_inclusive(sized, percent, area, d) ==
    /\ ~sized
    /\ PercentLT(percent.num, area, MediumPercent)
    /\ MediumDiffMin < d
    /\ d <= MediumDiffMax

\* variant of MediumRule: a layer of exactly 50% is in the band
MediumRule_fifty(sized, percent, area, d) ==
    /\ ~sized
    /\ percent.num <= MediumPercent * area
    /\ MediumDiffMin < d
    /\ d < MediumDiffMax

\* line 254: not is_signature_sized and layer_size_percent < 50
\*           and 5.0 < diff < 25.0   (layer_size_percent is bound)
MediumRule(sized, percent, area, d) ==
    /\ ~sized
    /\ PercentLT(percent.num, area, MediumPercent)
    /\ MediumDiffMin < d
    /\ d < MediumDiffMax

\* lines 236-260: the score is d; decide
Classify ==
    /\ pc = "measure"
    /\ \E d \in Scores :
        /\ diff' = d
        /\ outcome' = [outcome EXCEPT ![i] = d]
        /\ IF SmallRule(is_signature_sized, d)
           THEN \* lines 251-253: signature, kept hidden
                /\ signature_layers' = Append(signature_layers, i)
                /\ UNCHANGED <<psd, writes, caught>>
           ELSE IF ~is_signature_sized /\ ~layer_size_percent.bound
           THEN \* line 254 reads an unassigned local: UnboundLocalError,
                \* caught at line 262
                /\ psd' = RestoreLayer(psd, i)
                /\ writes' = [writes EXCEPT ![i] = @ + 1]
                /\ caught' = caught \cup {i}
                /\ UNCHANGED signature_layers
           ELSE IF MediumRule(is_signature_sized, layer_size_percent,
                              image_area, d)
           THEN \* lines 254-257: signature, kept hidden
                /\ signature_layers' = Append(signature_layers, i)
                /\ UNCHANGED <<psd, writes, caught>>
           ELSE \* lines 258-260: restore the layer
                /\ psd' = RestoreLayer(psd, i)
                /\ writes' = [writes EXCEPT ![i] = @ + 1]
                /\ UNCHANGED <<signature_layers, caught>>
    /\ i' = i + 1
    /\ pc' = "loop"
    /\ UNCHANGED <<size, reference, image_area, originally_hidden,
                   is_signature_sized, layer_size_percent, test_image,
                   result, entry_visible, composite_calls>>
    /\ UNCHANGED outside_detect

\* lines 266-270: the loop is over
Return ==
    /\ pc = "loop"
    /\ i = Len_psd
    /\ result' = [kind |-> "returned", error |-> "",
                  value |-> <<signature_layers, originally_hidden, FALSE>>]
    /\ pc' = "returned"
    /\ UNCHANGED <<psd, size, reference, image_area, originally_hidden,
                   signature_layers, i, is_signature_sized,
                   layer_size_percent, test_image, diff, entry_visible,
                   writes, composite_calls, outcome, caught>>
    /\ UNCHANGED outside_detect

Next ==
    \/ Reference
    \/ ReferenceFails
    \/ SkipHidden
    \/ ZeroDivision
    \/ SkipLarge
    \/ Hide
    \/ Composite
    \/ CompositeFails
    \/ MeasureFails
    \/ Classify
    \/ Return

Spec == Init /\ [][Next]_vars

(***************************************************************************)
(* calculate_image_difference (autosig.py lines 109-141)                   *)
(*                                                                         *)
(* An image is a record of its mode ("RGB" or "L"), its size <<width,      *)
(* height>> and its pixels in row order, each pixel a tuple of channel     *)
(* values 0..255.  The arrays are float32, and so are their sum, their     *)
(* mean and the normalized score: a float32 is kept as m * 2^e with        *)
(* 2^23 <= m < 2^24 (or m = 0), and every operation rounds to the nearest  *)
(* such value, ties to the even m.                                         *)
(***************************************************************************)

\* 2^k
RECURSIVE TwoTo(_)
TwoTo(k) == IF k = 0 THEN 1 ELSE 2 * TwoTo(k - 1)

\* number of binary digits of k > 0
RECURSIVE BitLength(_)
BitLength(k) == IF k = 0 THEN 0 ELSE 1 + BitLength(k \div 2)

\* q or q + 1: round to nearest, ties to even, given the remainder r of a
\* division by d
RoundHalfEven(q, r, d) ==
    IF 2 * r > d \/ (2 * r = d /\ q % 2 = 1) THEN q + 1 ELSE q

\* the float32 nearest to the integer k >= 0, as an integer
RoundInt24(k) ==
    IF BitLength(k) <= 24 THEN k
    ELSE LET s == BitLength(k) - 24
             d == TwoTo(s)
         IN  RoundHalfEven(k \div d, k % d, d) * d

\* float32 addition of two integer-valued float32 numbers
AddF32(x, y) == RoundInt24(x + y)

\* the float32 number nearest to m * 2^e, for an integer m >= 0
NormalizeF32(m, e) ==
    IF m = 0 THEN [m |-> 0, e |-> 0]
    ELSE IF BitLength(m) > 24
    THEN LET s == BitLength(m) - 24
             d == TwoTo(s)
             q == RoundHalfEven(m \div d, m % d, d)
         IN  IF q = TwoTo(24) THEN [m |-> TwoTo(23), e |-> e + s + 1]
             ELSE [m |-> q, e |-> e + s]
    ELSE LET t == 24 - BitLength(m)
         IN  [m |-> m * TwoTo(t), e |-> e - t]

\* binary long division: extend the quotient q of a division by d, with
\* remainder r, until it has 24 digits, then round
RECURSIVE ExtendQuotient(_, _, _, _)
ExtendQuotient(q, r, d, e) ==
    IF BitLength(q) >= 24
    THEN NormalizeF32(RoundHalfEven(q, r, d), e)
    ELSE IF 2 * r >= d
         THEN ExtendQuotient(2 * q + 1, 2 * r - d, d, e - 1)
         ELSE ExtendQuotient(2 * q, 2 * r, d, e - 1)

\* float32 division of x = m * 2^e by the integer d > 0
DivideF32(x, d) ==
    IF x.m = 0 THEN x
    ELSE ExtendQuotient(x.m \div d, x.m % d, d, x.e)

\* float32 multiplication of x by the integer k
MultiplyF32(x, k) == NormalizeF32(x.m * k, x.e)

\* line 124, 126: img.convert('RGB'); a grey value fills the three channels
ConvertRGB(img) ==
    IF img.mode = "RGB" THEN img
    ELSE [mode |-> "RGB", size |-> img.size,
          data |-> [k \in DOMAIN img.data |->
                        <<img.data[k][1], img.data[k][1], img.data[k][1]>>]]

\* lines 129-130: np.array(img): element [y][x][c] of the (h, w, 3) array
Element(img, y, x, c) == img.data[y * img.size[1] + x + 1][c]

\* numpy broadcasting of two lengths: equal, or one of them is 1
Broadcastable(n1, n2) == n1 = n2 \/ n1 = 1 \/ n2 = 1

\* the larger of two numbers
Larger(n1, n2) == IF n1 >= n2 THEN n1 ELSE n2

\* line 133: (arr1 - arr2) ** 2, flattened in row order; an axis of length
\* 1 is stretched to the length of the other array
SquaredDifferences(a, b) ==
    LET w == Larger(a.size[1], b.size[1])
        h == Larger(a.size[2], b.size[2])
        At(img, y, x, c) ==
            Element(img, IF img.size[2] = 1 THEN 0 ELSE y,
                         IF img.size[1] = 1 THEN 0 ELSE x, c)
    IN  [k \in 1..(h * w * 3) |->
            LET y == (k - 1) \div (w * 3)
                x == ((k - 1) % (w * 3)) \div 3
                c == ((k - 1) % 3) + 1
                d == At(a, y, x, c) - At(b, y, x, c)
            IN  d * d]

\* a[lo + 1] + a[lo + 1 + step] + ... (n terms), added one by one to acc
RECURSIVE SumInOrder(_, _, _, _, _)
SumInOrder(a, lo, step, n, acc) ==
    IF n = 0 THEN acc
    ELSE SumInOrder(a, lo + step, step, n - 1, AddF32(acc, a[lo + 1]))

\* line 133: np.mean adds float32 values with numpy's pairwise summation:
\* fewer than 8 values in order, up to 128 values in 8 interleaved lanes,
\* more by halving
RECURSIVE PairwiseSum(_, _, _)
PairwiseSum(a, lo, n) ==
    IF n < 8 THEN SumInOrder(a, lo, 1, n, 0)
    ELSE IF n <= 128
    THEN LET r(j) == SumInOrder(a, lo + j, 8, n \div 8, 0)
             lanes == AddF32(AddF32(AddF32(r(0), r(1)), AddF32(r(2), r(3))),
                             AddF32(AddF32(r(4), r(5)), AddF32(r(6), r(7))))
         IN  SumInOrder(a, lo + (n - (n % 8)), 1, n % 8, lanes)
    ELSE LET half == (n \div 2) - ((n \div 2) % 8)
         IN  AddF32(PairwiseSum(a, lo, half),
                    PairwiseSum(a, lo + half, n - half))

\* line 133: np.mean of a float32 array: float32 sum divided by the count
Mean(a) == DivideF32(NormalizeF32(PairwiseSum(a, 0, Len(a)), 0), Len(a))

\* lines 109-141
calculate_image_difference(a, b) ==
    LET rgb1 == ConvertRGB(a)
        rgb2 == ConvertRGB(b)
    IN  IF ~(/\ Broadcastable(rgb1.size[1], rgb2.size[1])
             /\ Broadcastable(rgb1.size[2], rgb2.size[2]))
        THEN \* line 133: operands could not be broadcast together
             [kind |-> "raised", error |-> "ValueError",
              value |-> [m |-> 0, e |-> 0]]
        ELSE LET mse == Mean(SquaredDifferences(rgb1, rgb2))
             IN  [kind |-> "returned", error |-> "",
                  value |-> MultiplyF32(DivideF32(mse, 255 * 255), 100)]

\* an image of the given mode and size, every pixel equal to pixel
Uniform(mode, sz, pixel) ==
    [mode |-> mode, size |-> sz,
     data |-> [k \in 1..(sz[1] * sz[2]) |-> pixel]]

\* pixels of the small regions
Palette == {<<0, 0, 0>>, <<255, 255, 255>>, <<10, 20, 30>>}

\* sizes of the small regions
SmallSizes == {<<1, 1>>, <<2, 1>>, <<1, 2>>}

\* sizes of the large regions
LargeSizes == {<<3, 29>>, <<1, 89>>}

\* the regions compared
Images ==
    UNION {{[mode |-> "RGB", size |-> sz, data |-> px] :
               px \in [1..(sz[1] * sz[2]) -> Palette]} : sz \in SmallSizes}
    \cup {Uniform("L", <<1, 1>>, <<0>>), Uniform("L", <<1, 1>>, <<255>>)}
    \cup {Uniform("RGB", sz, px) :
              sz \in LargeSizes, px \in {<<0, 0, 0>>, <<255, 255, 255>>}}

\* no call of detect_and_hide_signature_layers is modelled
DetectIdle ==
    /\ psd = <<>>
    /\ size = <<0, 0>>
    /\ reference = NoImage
    /\ image_area = 0
    /\ originally_hidden = <<>>
    /\ signature_layers = <<>>
    /\ i = 0
    /\ is_signature_sized = FALSE
    /\ layer_size_percent = Unbound
    /\ test_image = NoImage
    /\ diff = 0
    /\ result = NoResult
    /\ entry_visible = <<>>
    /\ writes = <<>>
    /\ composite_calls = <<>>
    /\ outcome = <<>>
    /\ caught = {}

\* a call calculate_image_difference(img1, img2)
InitCalculate ==
    /\ DetectIdle
    /\ pc = "calculate"
    /\ img1 \in Images
    /\ img2 \in Images
    /\ normalized = NoResult
    /\ HideIdle
    /\ ConflictIdle
    /\ ProcessIdle
    /\ SelectIdle
    /\ LoadIdle
    /\ RepeatIdle

\* lines 109-141: the call returns or raises
Calculate ==
    /\ pc = "calculate"
    /\ normalized' = calculate_image_difference(img1, img2)
    /\ pc' = "calculated"
    /\ UNCHANGED <<img1, img2>>
    /\ UNCHANGED outside_calculate

NextCalculate == Calculate

SpecCalculate == InitCalculate /\ [][NextCalculate]_vars


(***************************************************************************)
(* hide_layers_in_psd (autosig.py lines 65-106)                            *)
(*                                                                         *)
(* A layer spec is an int or a str.  A layer name is a str; the empty      *)
(* string stands for a layer without a name attribute or with an empty     *)
(* name.                                                                   *)
(***************************************************************************)

\* the strings of digits used as layer specs
DigitStrings == {"0", "1", "7"}

\* line 82: layer_spec.isdigit()
IsDigit(str) == str \in DigitStrings

\* line 84: int(layer_spec)
IntOf(str) == CASE str = "0" -> 0 [] str = "1" -> 1 [] str = "7" -> 7

\* line 97: str.lower()
Lower(str) ==
    CASE str \in {"sig", "SIG", "Sig"} -> "sig"
      [] OTHER -> str

\* the layer specs: ints and strs
IntSpec(k) == [kind |-> "int", int |-> k, str |-> ""]
StrSpec(str) == [kind |-> "str", int |-> 0, str |-> str]
LayerSpecs ==
    {IntSpec(k) : k \in -1..(MaxLayers + 1)}
    \cup {StrSpec(str) : str \in DigitStrings \cup {"sig", "SIG", "bg", "-1"}}

\* largest number of layer specs in layers_to_hide
MaxSpecs == 2

\* lines 82-84: a str of digits becomes an int
ConvertSpec(layer_spec) ==
    IF layer_spec.kind = "str" /\ IsDigit(layer_spec.str)
    THEN IntSpec(IntOf(layer_spec.str))
    ELSE layer_spec

\* line 97: the layer has a name and it equals the spec, ignoring case
NameMatches(name, layer_spec) ==
    name # "" /\ Lower(name) = Lower(layer_spec.str)

\* variant: the last layer whose name matches, or -1
FirstMatch_last(names, layer_spec) ==
    LET matches == {j \in DOMAIN names : NameMatches(names[j], layer_spec)}
    IN  IF matches = {} THEN -1
        ELSE CHOOSE j \in matches : \A k \in matches : j >= k

\* lines 96-101: the first layer whose name matches, or -1
FirstMatch(names, layer_spec) ==
    LET matches == {j \in DOMAIN names : NameMatches(names[j], layer_spec)}
    IN  IF matches = {} THEN -1
        ELSE CHOOSE j \in matches : \A k \in matches : j <= k

\* a call hide_layers_in_psd(psd, layers_to_hide)
InitHide ==
    /\ \E n \in 0..MaxLayers :
        /\ psd \in [0..(n - 1) -> [visible : BOOLEAN, bbox : {NoBBox}]]
        /\ layer_names \in [0..(n - 1) -> {"", "Sig", "bg"}]
    /\ \/ layers_to_hide = NoneList
       \/ \E n \in 0..MaxSpecs :
              layers_to_hide \in
                  [is_none : {FALSE}, items : [1..n -> LayerSpecs]]
    /\ pc = "hide_entry"
    /\ next_spec = 0
    /\ hidden_count = 0
    /\ hide_result = NoResult
    /\ size = <<0, 0>>
    /\ reference = NoImage
    /\ image_area = 0
    /\ originally_hidden = <<>>
    /\ signature_layers = <<>>
    /\ i = 0
    /\ is_signature_sized = FALSE
    /\ layer_size_percent = Unbound
    /\ test_image = NoImage
    /\ diff = 0
    /\ result = NoResult
    /\ entry_visible = <<>>
    /\ writes = <<>>
    /\ composite_calls = <<>>
    /\ outcome = <<>>
    /\ caught = {}
    /\ CalculateIdle
    /\ ConflictIdle
    /\ ProcessIdle
    /\ SelectIdle
    /\ LoadIdle
    /\ RepeatIdle

\* the layer spec the outer loop is at
CurrentSpec == ConvertSpec(layers_to_hide.items[next_spec])

\* lines 76-77: nothing to hide
HideNothing ==
    /\ pc = "hide_entry"
    /\ layers_to_hide.is_none \/ layers_to_hide.items = <<>>
    /\ hide_result' = [kind |-> "returned", error |-> "", value |-> 0]
    /\ pc' = "hide_returned"
    /\ UNCHANGED <<psd, layer_names, layers_to_hide, next_spec, hidden_count>>
    /\ UNCHANGED outside_hide

\* lines 79-81: enter the loop over the layer specs
HideBegin ==
    /\ pc = "hide_entry"
    /\ ~layers_to_hide.is_none /\ layers_to_hide.items # <<>>
    /\ hidden_count' = 0
    /\ next_spec' = 1
    /\ pc' = "hide_loop"
    /\ UNCHANGED <<psd, layer_names, layers_to_hide, hide_result>>
    /\ UNCHANGED outside_hide

\* variant: the upper end of the range is included
InRange_inclusive(k, n) == 0 <= k /\ k <= n

\* line 88: 0 <= layer_spec < len(psd)
InRange(k, n) == 0 <= k /\ k < n

\* lines 86-90: an index within range
HideByIndex ==
    /\ pc = "hide_loop"
    /\ next_spec <= Len(layers_to_hide.items)
    /\ CurrentSpec.kind = "int"
    /\ InRange(CurrentSpec.int, Len_psd)
    /\ psd' = SetVisible(psd, CurrentSpec.int, FALSE)
    /\ hidden_count' = hidden_count + 1
    /\ next_spec' = next_spec + 1
    /\ UNCHANGED <<pc, layer_names, layers_to_hide, hide_result>>
    /\ UNCHANGED outside_hide

\* lines 91-92: an index out of range: warning only
HideIndexOutOfRange ==
    /\ pc = "hide_loop"
    /\ next_spec <= Len(layers_to_hide.items)
    /\ CurrentSpec.kind = "int"
    /\ ~InRange(CurrentSpec.int, Len_psd)
    /\ next_spec' = next_spec + 1
    /\ UNCHANGED <<psd, pc, layer_names, layers_to_hide, hidden_count,
                   hide_result>>
    /\ UNCHANGED outside_hide

\* lines 93-101: a name some layer has
HideByName ==
    /\ pc = "hide_loop"
    /\ next_spec <= Len(layers_to_hide.items)
    /\ CurrentSpec.kind = "str"
    /\ FirstMatch(layer_names, CurrentSpec) # -1
    /\ psd' = SetVisible(psd, FirstMatch(layer_names, CurrentSpec), FALSE)
    /\ hidden_count' = hidden_count + 1
    /\ next_spec' = next_spec + 1
    /\ UNCHANGED <<pc, layer_names, layers_to_hide, hide_result>>
    /\ UNCHANGED outside_hide

\* lines 93-104: a name no layer has: warning only
HideNameNotFound ==
    /\ pc = "hide_loop"
    /\ next_spec <= Len(layers_to_hide.items)
    /\ CurrentSpec.kind = "str"
    /\ FirstMatch(layer_names, CurrentSpec) = -1
    /\ next_spec' = next_spec + 1
    /\ UNCHANGED <<psd, pc, layer_names, layers_to_hide, hidden_count,
                   hide_result>>
    /\ UNCHANGED outside_hide

\* line 106: return hidden_count
HideReturn ==
    /\ pc = "hide_loop"
    /\ next_spec > Len(layers_to_hide.items)
    /\ hide_result' = [kind |-> "returned", error |-> "",
                       value |-> hidden_count]
    /\ pc' = "hide_returned"
    /\ UNCHANGED <<psd, layer_names, layers_to_hide, next_spec, hidden_count>>
    /\ UNCHANGED outside_hide

NextHide ==
    \/ HideNothing
    \/ HideBegin
    \/ HideByIndex
    \/ HideIndexOutOfRange
    \/ HideByName
    \/ HideNameNotFound
    \/ HideReturn

SpecHide == InitHide /\ [][NextHide]_vars

(***************************************************************************)
(* handle_file_conflict (autosig.py lines 401-443)                         *)
(*                                                                         *)
(* The standard input is a sequence of events: a line typed at the prompt, *)
(* or "^C" (input() raises KeyboardInterrupt) or "^D" (input() raises      *)
(* EOFError).  When the sequence is used up the input is at its end and    *)
(* input() raises EOFError.                                                *)
(***************************************************************************)

\* the lines typed at the prompt
Lines == {"y", "Yes", " n ", "NO", "a", "All", "s", "skip", "Skip All",
          "q", ""}

\* the events of the standard input
InputEvents == Lines \cup {"^C", "^D"}

\* largest number of events on the standard input of one call
MaxResponses == 2

\* the standard inputs
Inputs == UNION {[1..n -> InputEvents] : n \in 0..MaxResponses}

\* line 430: input().lower().strip()
LowerStrip(line) ==
    CASE line = "Yes" -> "yes"
      [] line = " n " -> "n"
      [] line = "NO" -> "no"
      [] line = "All" -> "all"
      [] line = "Skip All" -> "skip all"
      [] OTHER -> line

\* a returned pair, with the number of prompts written
ConflictResult(process, action, prompts) ==
    [should_process |-> process, global_action |-> action,
     prompts |-> prompts]

\* lines 425-443: the prompt loop, at event k of the standard input
RECURSIVE PromptLoop(_, _)
PromptLoop(stdin, k) ==
    IF k > Len(stdin) \/ stdin[k] \in {"^C", "^D"}
    THEN ConflictResult(FALSE, "skip_all", k)
    ELSE LET response == LowerStrip(stdin[k])
         IN  CASE response \in {"y", "yes"} -> ConflictResult(TRUE, NoAction, k)
               [] response \in {"n", "no"} -> ConflictResult(FALSE, NoAction, k)
               [] response \in {"a", "all"} ->
                    ConflictResult(TRUE, "overwrite_all", k)
               [] response \in {"s", "skip", "skip all"} ->
                    ConflictResult(FALSE, "skip_all", k)
               [] OTHER -> PromptLoop(stdin, k + 1)

\* variant: skip_existing is looked at before force
handle_file_conflict_skip_first(exists, force, skip_existing, stdin) ==
    IF ~exists THEN ConflictResult(TRUE, NoAction, 0)
    ELSE IF skip_existing THEN ConflictResult(FALSE, NoAction, 0)
    ELSE IF force THEN ConflictResult(TRUE, NoAction, 0)
    ELSE PromptLoop(stdin, 1)

\* lines 415-443; exists is output_path.exists()
handle_file_conflict(exists, force, skip_existing, stdin) ==
    IF ~exists THEN ConflictResult(TRUE, NoAction, 0)
    ELSE IF force THEN ConflictResult(TRUE, NoAction, 0)
    ELSE IF skip_existing THEN ConflictResult(FALSE, NoAction, 0)
    ELSE PromptLoop(stdin, 1)

\* a call handle_file_conflict(output_path, force, skip_existing)
InitConflict ==
    /\ conflict_call \in [exists : BOOLEAN, force : BOOLEAN,
                          skip_existing : BOOLEAN, stdin : Inputs]
    /\ conflict_return = <<>>
    /\ pc = "conflict"
    /\ DetectIdle
    /\ CalculateIdle
    /\ HideIdle
    /\ ProcessIdle
    /\ SelectIdle
    /\ LoadIdle
    /\ RepeatIdle

\* the call runs to its return
Conflict ==
    /\ pc = "conflict"
    /\ conflict_return' =
           handle_file_conflict(conflict_call.exists, conflict_call.force,
                                conflict_call.skip_existing,
                                conflict_call.stdin)
    /\ pc' = "conflict_returned"
    /\ UNCHANGED conflict_call
    /\ UNCHANGED outside_conflict

NextConflict == Conflict

SpecConflict == InitConflict /\ [][NextConflict]_vars

(***************************************************************************)
(* process_image_files, the loop over the input files (autosig.py lines    *)
(* 682-786), with detect_orientation, parse_aspect_ratio,                  *)
(* center_crop_to_max_ratio and resize_image_if_needed (lines 482-587).    *)
(*                                                                         *)
(* An image is its size <<width, height>> and the position the signature   *)
(* was pasted at (<<>> when none was).  A file is loaded, or the load      *)
(* raises; a save writes the output, or raises and writes none.  The input *)
(* files are named 1..n and have distinct output paths.  The float         *)
(* comparisons and truncations of lines 493-585 and 720-721 are computed   *)
(* on exact fractions; for the sizes used they agree with the floats.      *)
(***************************************************************************)

\* largest number of input files
MaxFiles == 2

\* the sizes of the loaded images
Sizes == {<<10, 10>>, <<20, 5>>, <<5, 20>>, <<18, 2>>}

\* the size of the signature image
SignatureSize == <<3, 3>>

\* the arguments of the call; "" is None for the ratios
Arguments ==
    [force : BOOLEAN, skip_existing : BOOLEAN, apply_signature : BOOLEAN,
     offset_pixels : {1}, offset_percent : {None, 50},
     max_dimension : {None, 8},
     crop_portrait_ratio : {"", "4:5", "4-5"},
     crop_landscape_ratio : {"", "16:9"}]

\* the standard inputs of one call from the loop: at most one event, and
\* then the end of the input
PromptInputs == UNION {[1..n -> InputEvents] : n \in 0..1}

\* lines 482-499; height > 0
detect_orientation(width, height) ==
    IF 5 * width > 6 * height THEN "landscape"
    ELSE IF 5 * width < 4 * height THEN "portrait"
    ELSE "square"

\* lines 502-524: the ratio w/h, or ValueError
parse_aspect_ratio(ratio_str) ==
    CASE ratio_str = "4:5" -> [ok |-> TRUE, w |-> 4, h |-> 5]
      [] ratio_str = "16:9" -> [ok |-> TRUE, w |-> 16, h |-> 9]
      [] OTHER -> [ok |-> FALSE, w |-> 0, h |-> 0]

\* lines 527-556: the size of the image returned
center_crop_to_max_ratio(image_size, max_ratio, orientation) ==
    LET width == image_size[1]
        height == image_size[2]
        new_height == (width * max_ratio.h) \div max_ratio.w
        new_width == (height * max_ratio.w) \div max_ratio.h
    IN  IF /\ orientation \in {"portrait", "square"}
           /\ width * max_ratio.h < max_ratio.w * height
           /\ new_height < height
        THEN <<width, new_height>>
        ELSE IF /\ orientation = "landscape"
                /\ width * max_ratio.h > max_ratio.w * height
                /\ new_width < width
        THEN <<new_width, height>>
        ELSE image_size

\* lines 698-713: the ratio string the crop is made with, "" when no crop
\* is attempted
RatioUsed(image_size, a) ==
    LET orientation == detect_orientation(image_size[1], image_size[2])
    IN  IF orientation \in {"portrait", "square"}
           /\ a.crop_portrait_ratio # ""
        THEN a.crop_portrait_ratio
        ELSE IF orientation = "landscape" /\ a.crop_landscape_ratio # ""
        THEN a.crop_landscape_ratio
        ELSE ""

\* lines 698-713: the size after the crop step
Cropped(image_size, a) ==
    LET ratio_str == RatioUsed(image_size, a)
    IN  IF ratio_str = "" \/ ~parse_aspect_ratio(ratio_str).ok
        THEN image_size
        ELSE center_crop_to_max_ratio(
                 image_size, parse_aspect_ratio(ratio_str),
                 detect_orientation(image_size[1], image_size[2]))

\* lines 718-725: the offsets <<offset_x, offset_y>>
Offsets(image_size, a) ==
    IF a.offset_percent # None
    THEN <<(image_size[1] * a.offset_percent) \div 100,
           (image_size[2] * a.offset_percent) \div 100>>
    ELSE <<a.offset_pixels, a.offset_pixels>>

\* lines 727-728: <<sig_x, sig_y>>
SignaturePosition(image_size, a) ==
    <<image_size[1] - SignatureSize[1] - Offsets(image_size, a)[1],
      image_size[2] - SignatureSize[2] - Offsets(image_size, a)[2]>>

\* lines 559-585: the size resize_image_if_needed asks for
ResizedSize(image_size, max_dimension) ==
    LET width == image_size[1]
        height == image_size[2]
        larger_dimension == IF width > height THEN width ELSE height
    IN  IF max_dimension = None \/ larger_dimension <= max_dimension
        THEN image_size
        ELSE IF width > height
        THEN <<max_dimension, (height * max_dimension) \div width>>
        ELSE <<(width * max_dimension) \div height, max_dimension>>

\* a call process_image_files(...), at line 682
InitProcess ==
    /\ args \in Arguments
    /\ \E n \in 1..MaxFiles : image_files = [k \in 1..n |-> k]
    /\ file_index = 0
    /\ result_image = <<>>
    /\ should_process = FALSE
    /\ processed_count = 0
    /\ skipped_files = <<>>
    /\ global_action = NoAction
    /\ outputs = {}
    /\ conflict_calls = <<>>
    /\ messages = <<>>
    /\ iteration_entry = <<>>
    /\ source_image = <<>>
    /\ saved_images = <<>>
    /\ interrupts = <<>>
    /\ pc = "loop"
    /\ DetectIdle
    /\ CalculateIdle
    /\ HideIdle
    /\ ConflictIdle
    /\ SelectIdle
    /\ LoadIdle
    /\ RepeatIdle

\* the file the loop is at
image_file == image_files[file_index]

\* something printed about the current file
Printed(kind) == Append(messages, [kind |-> kind, file |-> image_file])

\* line 688: the loop takes the next file
NextFile ==
    /\ pc = "loop"
    /\ file_index < Len(image_files)
    /\ file_index' = file_index + 1
    /\ iteration_entry' =
           [processed_count |-> processed_count,
            skipped_files |-> skipped_files,
            global_action |-> global_action,
            outputs |-> outputs]
    /\ pc' = "load"
    /\ UNCHANGED <<args, image_files, result_image, should_process,
                   processed_count, skipped_files, global_action, outputs,
                   conflict_calls, messages>>
    /\ UNCHANGED process_record
    /\ UNCHANGED outside_process

\* variant: the handler leaves the loop
ExceptException_break ==
    /\ messages' = Printed("error")
    /\ pc' = "done"

\* lines 762-764: except Exception: the error is printed and the loop
\* continues
ExceptException ==
    /\ messages' = Printed("error")
    /\ pc' = "loop"

\* lines 692-695: the file is loaded and copied
Load ==
    /\ pc = "load"
    /\ \E image_size \in Sizes :
           /\ source_image' = [size |-> image_size, signature |-> <<>>]
           /\ result_image' = [size |-> image_size, signature |-> <<>>]
    /\ pc' = "crop"
    /\ UNCHANGED <<args, image_files, file_index, should_process,
                   processed_count, skipped_files, global_action, outputs,
                   conflict_calls, messages, iteration_entry>>
    /\ UNCHANGED <<saved_images, interrupts>>
    /\ UNCHANGED outside_process

\* line 692: load_image_file raises
LoadFails ==
    /\ pc = "load"
    /\ ExceptException
    /\ UNCHANGED <<args, image_files, file_index, result_image,
                   should_process, processed_count, skipped_files,
                   global_action, outputs, conflict_calls, iteration_entry>>
    /\ UNCHANGED process_record
    /\ UNCHANGED outside_process

\* lines 698-713: the crop to the maximum ratio; a ratio that does not parse
\* gives a warning and no crop
Crop ==
    /\ pc = "crop"
    /\ result_image' =
           [result_image EXCEPT !.size = Cropped(result_image.size, args)]
    /\ messages' =
           IF /\ RatioUsed(result_image.size, args) # ""
              /\ ~parse_aspect_ratio(RatioUsed(result_image.size, args)).ok
           THEN Printed("invalid ratio")
           ELSE messages
    /\ pc' = "sign"
    /\ UNCHANGED <<args, image_files, file_index, should_process,
                   processed_count, skipped_files, global_action, outputs,
                   conflict_calls, iteration_entry>>
    /\ UNCHANGED process_record
    /\ UNCHANGED outside_process

\* variant: the file is recorded as skipped
SignatureTooLarge_skipped ==
    /\ pc = "sign"
    /\ args.apply_signature
    /\ \/ SignaturePosition(result_image.size, args)[1] < 0
       \/ SignaturePosition(result_image.size, args)[2] < 0
    /\ messages' = Printed("signature too large")
    /\ skipped_files' = Append(skipped_files, image_file)
    /\ pc' = "loop"
    /\ UNCHANGED <<args, image_files, file_index, result_image,
                   should_process, processed_count,
                   global_action, outputs, conflict_calls, iteration_entry>>
    /\ UNCHANGED process_record
    /\ UNCHANGED outside_process

\* lines 716-733: the signature does not fit: warning, next file
SignatureTooLarge ==
    /\ pc = "sign"
    /\ args.apply_signature
    /\ \/ SignaturePosition(result_image.size, args)[1] < 0
       \/ SignaturePosition(result_image.size, args)[2] < 0
    /\ messages' = Printed("signature too large")
    /\ pc' = "loop"
    /\ UNCHANGED <<args, image_files, file_index, result_image,
                   should_process, processed_count, skipped_files,
                   global_action, outputs, conflict_calls, iteration_entry>>
    /\ UNCHANGED process_record
    /\ UNCHANGED outside_process

\* variant: the position is computed from the image as loaded
Sign_uncropped ==
    /\ pc = "sign"
    /\ IF args.apply_signature
       THEN /\ SignaturePosition(result_image.size, args)[1] >= 0
            /\ SignaturePosition(result_image.size, args)[2] >= 0
            /\ result_image' =
                   [result_image EXCEPT
                       !.signature =
                           SignaturePosition(source_image.size, args)]
       ELSE UNCHANGED result_image
    /\ pc' = "resize"
    /\ UNCHANGED <<args, image_files, file_index, should_process,
                   processed_count, skipped_files, global_action, outputs,
                   conflict_calls, messages, iteration_entry>>
    /\ UNCHANGED process_record
    /\ UNCHANGED outside_process

\* lines 716-736: the signature is pasted, or none is applied
Sign ==
    /\ pc = "sign"
    /\ IF args.apply_signature
       THEN /\ SignaturePosition(result_image.size, args)[1] >= 0
            /\ SignaturePosition(result_image.size, args)[2] >= 0
            /\ result_image' =
                   [result_image EXCEPT
                       !.signature =
                           SignaturePosition(result_image.size, args)]
       ELSE UNCHANGED result_image
    /\ pc' = "resize"
    /\ UNCHANGED <<args, image_files, file_index, should_process,
                   processed_count, skipped_files, global_action, outputs,
                   conflict_calls, messages, iteration_entry>>
    /\ UNCHANGED process_record
    /\ UNCHANGED outside_process

\* lines 739-742: the resize, then the output path
Resize ==
    /\ pc = "resize"
    /\ ResizedSize(result_image.size, args.max_dimension)[1] > 0
    /\ ResizedSize(result_image.size, args.max_dimension)[2] > 0
    /\ result_image' =
           [result_image EXCEPT
               !.size = ResizedSize(result_image.size, args.max_dimension)]
    /\ pc' = "conflict"
    /\ UNCHANGED <<args, image_files, file_index, should_process,
                   processed_count, skipped_files, global_action, outputs,
                   conflict_calls, messages, iteration_entry>>
    /\ UNCHANGED process_record
    /\ UNCHANGED outside_process

\* line 739 (587): image.resize raises for a size with a zero
ResizeFails ==
    /\ pc = "resize"
    /\ \/ ResizedSize(result_image.size, args.max_dimension)[1] = 0
       \/ ResizedSize(result_image.size, args.max_dimension)[2] = 0
    /\ ExceptException
    /\ UNCHANGED <<args, image_files, file_index, result_image,
                   should_process, processed_count, skipped_files,
                   global_action, outputs, conflict_calls, iteration_entry>>
    /\ UNCHANGED process_record
    /\ UNCHANGED outside_process

\* lines 754-760 after should_process is set: on to the save, or the file is
\* skipped
AfterConflict(process) ==
    /\ should_process' = process
    /\ IF process
       THEN pc' = "save" /\ UNCHANGED skipped_files
       ELSE /\ skipped_files' = Append(skipped_files, image_file)
            /\ pc' = "loop"

\* lines 745-746
ConflictOverwriteAll ==
    /\ pc = "conflict"
    /\ global_action = "overwrite_all"
    /\ AfterConflict(TRUE)
    /\ UNCHANGED <<args, image_files, file_index, result_image,
                   processed_count, global_action, outputs, conflict_calls,
                   messages, iteration_entry>>
    /\ UNCHANGED process_record
    /\ UNCHANGED outside_process

\* lines 747-748
ConflictSkipAll ==
    /\ pc = "conflict"
    /\ global_action = "skip_all"
    /\ AfterConflict(FALSE)
    /\ UNCHANGED <<args, image_files, file_index, result_image,
                   processed_count, global_action, outputs, conflict_calls,
                   messages, iteration_entry>>
    /\ UNCHANGED process_record
    /\ UNCHANGED outside_process

\* variant: handle_file_conflict is called whatever global_action is
ConflictAsk_always ==
    /\ pc = "conflict"
    /\ \E exists \in BOOLEAN, stdin \in PromptInputs :
         LET returned == handle_file_conflict(exists, args.force,
                                              args.skip_existing, stdin)
         IN  /\ global_action' =
                    IF returned.global_action # NoAction
                    THEN returned.global_action
                    ELSE global_action
             /\ AfterConflict(returned.should_process)
             /\ interrupts' =
                    IF /\ 0 < returned.prompts
                       /\ returned.prompts <= Len(stdin)
                       /\ stdin[returned.prompts] = "^C"
                    THEN Append(interrupts, file_index)
                    ELSE interrupts
    /\ conflict_calls' = Append(conflict_calls, image_file)
    /\ UNCHANGED <<args, image_files, file_index, result_image,
                   processed_count, outputs, messages, iteration_entry>>
    /\ UNCHANGED <<source_image, saved_images>>
    /\ UNCHANGED outside_process

\* lines 749-752: handle_file_conflict is called
ConflictAsk ==
    /\ pc = "conflict"
    /\ global_action \notin {"overwrite_all", "skip_all"}
    /\ \E exists \in BOOLEAN, stdin \in PromptInputs :
         LET returned == handle_file_conflict(exists, args.force,
                                              args.skip_existing, stdin)
         IN  /\ global_action' =
                    IF returned.global_action # NoAction
                    THEN returned.global_action
                    ELSE global_action
             /\ AfterConflict(returned.should_process)
             /\ interrupts' =
                    IF /\ 0 < returned.prompts
                       /\ returned.prompts <= Len(stdin)
                       /\ stdin[returned.prompts] = "^C"
                    THEN Append(interrupts, file_index)
                    ELSE interrupts
    /\ conflict_calls' = Append(conflict_calls, image_file)
    /\ UNCHANGED <<args, image_files, file_index, result_image,
                   processed_count, outputs, messages, iteration_entry>>
    /\ UNCHANGED <<source_image, saved_images>>
    /\ UNCHANGED outside_process

\* lines 756-757: the output is saved and counted
Save ==
    /\ pc = "save"
    /\ outputs' = outputs \cup {image_file}
    /\ saved_images' = Append(saved_images, [file |-> image_file,
                                             image |-> result_image])
    /\ processed_count' = processed_count + 1
    /\ pc' = "loop"
    /\ UNCHANGED <<args, image_files, file_index, result_image,
                   should_process, skipped_files, global_action,
                   conflict_calls, messages, iteration_entry>>
    /\ UNCHANGED <<source_image, interrupts>>
    /\ UNCHANGED outside_process

\* line 756: save_image_with_format raises
SaveFails ==
    /\ pc = "save"
    /\ ExceptException
    /\ UNCHANGED <<args, image_files, file_index, result_image,
                   should_process, processed_count, skipped_files,
                   global_action, outputs, conflict_calls, iteration_entry>>
    /\ UNCHANGED process_record
    /\ UNCHANGED outside_process

\* lines 766-773: KeyboardInterrupt inside the loop: the cancellation is
\* printed and the function returns
Interrupt ==
    /\ pc \in {"loop", "load", "crop", "sign", "resize", "conflict", "save"}
    /\ messages' = Append(messages, [kind |-> "cancelled", file |-> 0])
    /\ interrupts' = Append(interrupts, file_index)
    /\ pc' = "cancelled"
    /\ UNCHANGED <<args, image_files, file_index, result_image,
                   should_process, processed_count, skipped_files,
                   global_action, outputs, conflict_calls, iteration_entry>>
    /\ UNCHANGED <<source_image, saved_images>>
    /\ UNCHANGED outside_process

\* lines 775-786: the loop is over: the summary is printed
Summary ==
    /\ pc = "loop"
    /\ file_index = Len(image_files)
    /\ messages' = Append(messages, [kind |-> "complete", file |-> 0])
    /\ pc' = "done"
    /\ UNCHANGED <<args, image_files, file_index, result_image,
                   should_process, processed_count, skipped_files,
                   global_action, outputs, conflict_calls, iteration_entry>>
    /\ UNCHANGED process_record
    /\ UNCHANGED outside_process

NextProcess ==
    \/ NextFile
    \/ Load
    \/ LoadFails
    \/ Crop
    \/ SignatureTooLarge
    \/ Sign
    \/ Resize
    \/ ResizeFails
    \/ ConflictOverwriteAll
    \/ ConflictSkipAll
    \/ ConflictAsk
    \/ Save
    \/ SaveFails
    \/ Interrupt
    \/ Summary

SpecProcess == InitProcess /\ [][NextProcess]_vars

(***************************************************************************)
(* process_image_files, the selection of the input files (autosig.py lines *)
(* 646-669), with is_likely_autosig_output (lines 446-479) and             *)
(* generate_output_path (lines 329-355).                                   *)
(*                                                                         *)
(* A string is the sequence of its characters.  A file is its name in the  *)
(* directory.  A run selects its input files and writes the outputs of     *)
(* some of them; a later run with the same arguments sees these outputs.   *)
(* image_files is kept as a set: its order plays no part here.             *)
(***************************************************************************)

\* largest number of runs over the directory
MaxRuns == 2

\* str.endswith
EndsWith(str, suffix) ==
    /\ Len(suffix) <= Len(str)
    /\ SubSeq(str, Len(str) - Len(suffix) + 1, Len(str)) = suffix

\* the position of the last "." of a name, 0 when it has none
LastDot(name) ==
    LET dots == {k \in DOMAIN name : name[k] = "."}
    IN  IF dots = {} THEN 0 ELSE CHOOSE k \in dots : \A j \in dots : j <= k

\* Path.stem: the name without its last extension
Stem(name) ==
    IF 1 < LastDot(name) /\ LastDot(name) < Len(name)
    THEN SubSeq(name, 1, LastDot(name) - 1)
    ELSE name

\* line 461-464: common_suffixes
CommonSuffixes == {
    <<"_", "w", "i", "t", "h", "_", "s", "i", "g">>,
    <<"_", "s", "i", "g", "n", "e", "d">>,
    <<"_", "w", "a", "t", "e", "r", "m", "a", "r", "k", "e", "d">>,
    <<"_", "a", "u", "t", "o", "s", "i", "g">>,
    <<"_", "s", "i", "g">>,
    <<"_", "s", "i", "g", "n", "a", "t", "u", "r", "e">>,
    <<"_", "t", "e", "s", "t">>,
    <<"_", "t", "e", "s", "t", "2">>,
    <<"_", "f", "i", "n", "a", "l">>,
    <<"_", "p", "r", "o", "c", "e", "s", "s", "e", "d">>,
    <<"_", "s", "t", "a", "m", "p", "e", "d">>}

\* variant: the suffix of the current run is not added
is_likely_autosig_output_common(name, current_suffix, exclude_patterns) ==
    \E suffix \in CommonSuffixes \cup exclude_patterns :
        EndsWith(Stem(name), suffix)

\* lines 446-479; exclude_patterns is a set, empty for None
is_likely_autosig_output(name, current_suffix, exclude_patterns) ==
    \E suffix \in CommonSuffixes
                  \cup (IF current_suffix # <<>> THEN {current_suffix}
                        ELSE {})
                  \cup exclude_patterns :
        EndsWith(Stem(name), suffix)

\* lines 342-350: the extension of an output format
Extension(output_format) ==
    CASE output_format = "jpg" -> <<".", "j", "p", "g">>
      [] OTHER -> <<".", "p", "n", "g">>

\* lines 329-355: the name of the output
generate_output_path(name, suffix, output_format) ==
    Stem(name) \o suffix \o Extension(output_format)

\* line 650-651: the pattern "*.fmt" matches the name
Matches(name, fmt) == EndsWith(name, <<".">> \o fmt)

\* the stems, the extensions and the names of the files in the directory
FileStems == {<<"a">>,
              <<"a", "_", "x">>,
              <<"a", "_", "s", "i", "g">>,
              <<"a", "_", "S", "i", "g">>,
              <<"a", "s", "i", "g">>,
              <<"a", "_", "d">>,
              <<"a", ".", "s">>,
              <<"a", "_", "t", "e", "s", "t", "2">>,
              <<"a", "_", "f", "i", "n", "a", "l">>}
FileExtensions == {<<".", "p", "n", "g">>, <<".", "j", "p", "g">>,
                   <<".", "t", "x", "t">>}
FileNames == {stem \o ext : stem \in FileStems, ext \in FileExtensions}

\* the arguments that matter to the selection; formats is
\* normalized_formats
SelectArguments ==
    [suffix : {<<>>, <<"_", "x">>, <<".", "s">>, <<"_", "s", "i", "g">>},
     exclude_patterns : {{}, {<<"_", "d">>}},
     output_format : {"png", "jpg"},
     formats : {{<<"p", "n", "g">>},
                {<<"p", "n", "g">>, <<"j", "p", "g">>}}]

\* the first run of process_image_files over a directory, at line 646
InitSelect ==
    /\ directory \in {{name1, name2} : name1, name2 \in FileNames}
    /\ select_args \in SelectArguments
    /\ found_files = {}
    /\ written = {}
    /\ run = 1
    /\ pc = "select"
    /\ DetectIdle
    /\ CalculateIdle
    /\ HideIdle
    /\ ConflictIdle
    /\ ProcessIdle
    /\ LoadIdle
    /\ RepeatIdle

\* lines 649-659: the files of the formats asked for that do not look like
\* outputs
Select ==
    /\ pc = "select"
    /\ found_files' =
           {name \in directory :
               /\ \E fmt \in select_args.formats : Matches(name, fmt)
               /\ ~is_likely_autosig_output(name, select_args.suffix,
                                            select_args.exclude_patterns)}
    /\ pc' = "files"
    /\ UNCHANGED <<directory, select_args, written, run>>
    /\ UNCHANGED outside_select

\* lines 688-757: a selected file is processed and its output written
WriteOutput ==
    /\ pc = "files"
    /\ \E name \in found_files :
         LET output == generate_output_path(name, select_args.suffix,
                                            select_args.output_format)
         IN  /\ [input |-> name, output |-> output, run |-> run]
                    \notin written
             /\ directory' = directory \cup {output}
             /\ written' = written \cup {[input |-> name, output |-> output,
                                          run |-> run]}
    /\ UNCHANGED <<pc, select_args, found_files, run>>
    /\ UNCHANGED outside_select

\* the run ends and a later run with the same arguments begins
NextRun ==
    /\ pc = "files"
    /\ run < MaxRuns
    /\ run' = run + 1
    /\ found_files' = {}
    /\ pc' = "select"
    /\ UNCHANGED <<directory, select_args, written>>
    /\ UNCHANGED outside_select

NextSelect ==
    \/ Select
    \/ WriteOutput
    \/ NextRun

SpecSelect == InitSelect /\ [][NextSelect]_vars

\* ---- detect_and_hide_signature_layers called twice on one document ----

\* variant of CallAgain: the second call is given the document as the file
\* holds it, not the one the first call left
CallAgain_reopened ==
    /\ pc = "returned"
    /\ earlier_calls = 0
    /\ first_call' = [kind |-> "returned", error |-> "",
                      value |-> <<result.value[1], result.value[2],
                                  Visibility>>]
    /\ earlier_calls' = 1
    /\ psd' = [j \in DOMAIN psd |->
                 [psd[j] EXCEPT !.visible = entry_visible[j]]]
    /\ reference' = NoImage
    /\ image_area' = 0
    /\ originally_hidden' = <<>>
    /\ signature_layers' = <<>>
    /\ i' = 0
    /\ is_signature_sized' = FALSE
    /\ layer_size_percent' = Unbound
    /\ test_image' = NoImage
    /\ diff' = 0
    /\ result' = NoResult
    /\ entry_visible' = entry_visible
    /\ writes' = [j \in DOMAIN psd |-> 0]
    /\ composite_calls' = <<>>
    /\ outcome' = [j \in DOMAIN psd |-> NotMeasured]
    /\ caught' = {}
    /\ pc' = "entry"
    /\ UNCHANGED size
    /\ UNCHANGED <<calculate_state, hide_state, conflict_state,
                   process_state, select_state, load_state>>

\* lines 169-185: the function is entered again with the document the first
\* call returned from; its locals are new, the layers keep their flags
CallAgain ==
    /\ pc = "returned"
    /\ earlier_calls = 0
    /\ first_call' = [kind |-> "returned", error |-> "",
                      value |-> <<result.value[1], result.value[2],
                                  Visibility>>]
    /\ earlier_calls' = 1
    /\ reference' = NoImage
    /\ image_area' = 0
    /\ originally_hidden' = <<>>
    /\ signature_layers' = <<>>
    /\ i' = 0
    /\ is_signature_sized' = FALSE
    /\ layer_size_percent' = Unbound
    /\ test_image' = NoImage
    /\ diff' = 0
    /\ result' = NoResult
    /\ entry_visible' = Visibility
    /\ writes' = [j \in DOMAIN psd |-> 0]
    /\ composite_calls' = <<>>
    /\ outcome' = [j \in DOMAIN psd |-> NotMeasured]
    /\ caught' = {}
    /\ pc' = "entry"
    /\ UNCHANGED <<psd, size>>
    /\ UNCHANGED <<calculate_state, hide_state, conflict_state,
                   process_state, select_state, load_state>>

NextTwice ==
    \/ Next
    \/ CallAgain

SpecTwice == Init /\ [][NextTwice]_vars

\* ---- load_image_file for a PSD ----

\* layer.bbox values of the documents loaded: none, 5%, 30% and 100%
LoadBBoxes == {NoBBox, <<0, 0, 1, 5>>, <<0, 0, 5, 6>>, <<0, 0, 10, 10>>}

\* layer.name of the layers of the documents loaded
LoadNames(n) ==
    {[j \in 0..(n - 1) |-> "Sig"],
     [j \in 0..(n - 1) |-> IF j = 1 THEN "sig" ELSE ""]}

\* the layers_to_hide arguments
LoadLists ==
    {NoneList,
     [is_none |-> FALSE, items |-> <<IntSpec(0)>>],
     [is_none |-> FALSE, items |-> <<StrSpec("sig")>>],
     [is_none |-> FALSE, items |-> <<IntSpec(1), StrSpec("SIG")>>],
     [is_none |-> FALSE, items |-> <<IntSpec(-1), StrSpec("bg")>>]}

\* lines 292-295: load_image_file(file_path, layers_to_hide,
\* auto_hide_signature) has opened the PSD
InitLoad ==
    /\ \E n \in 0..MaxLayers :
        /\ psd \in [0..(n - 1) -> [visible : BOOLEAN, bbox : LoadBBoxes]]
        /\ layer_names \in LoadNames(n)
    /\ layers_to_hide \in LoadLists
    /\ auto_hide_signature \in BOOLEAN
    /\ size \in Canvases
    /\ opened_visible = [j \in DOMAIN psd |-> psd[j].visible]
    /\ loaded_image = NoImage
    /\ pc = "load_opened"
    /\ next_spec = 0
    /\ hidden_count = 0
    /\ hide_result = NoResult
    /\ reference = NoImage
    /\ image_area = 0
    /\ originally_hidden = <<>>
    /\ signature_layers = <<>>
    /\ i = 0
    /\ is_signature_sized = FALSE
    /\ layer_size_percent = Unbound
    /\ test_image = NoImage
    /\ diff = 0
    /\ result = NoResult
    /\ entry_visible = <<>>
    /\ writes = <<>>
    /\ composite_calls = <<>>
    /\ outcome = <<>>
    /\ caught = {}
    /\ CalculateIdle
    /\ ConflictIdle
    /\ ProcessIdle
    /\ SelectIdle
    /\ RepeatIdle

\* line 298: layers_to_hide is truthy
ListGiven == ~layers_to_hide.is_none /\ layers_to_hide.items # <<>>

\* the manual hiding is over, or there was none to do
HidingDone ==
    \/ pc = "load_opened" /\ ~ListGiven
    \/ pc = "hide_returned"

\* lines 298-299: hide_layers_in_psd(psd, layers_to_hide) is called
LoadHide ==
    /\ pc = "load_opened"
    /\ ListGiven
    /\ pc' = "hide_entry"
    /\ UNCHANGED <<psd, detect_state, hide_state, load_state>>
    /\ UNCHANGED <<calculate_state, conflict_state, process_state,
                   select_state, repeat_state>>

\* variant of LoadDetect: the detection is given the document as it was
\* opened
LoadDetect_reopened ==
    /\ HidingDone
    /\ auto_hide_signature
    /\ psd' = [j \in DOMAIN psd |->
                 [psd[j] EXCEPT !.visible = opened_visible[j]]]
    /\ reference' = NoImage
    /\ image_area' = 0
    /\ originally_hidden' = <<>>
    /\ signature_layers' = <<>>
    /\ i' = 0
    /\ is_signature_sized' = FALSE
    /\ layer_size_percent' = Unbound
    /\ test_image' = NoImage
    /\ diff' = 0
    /\ result' = NoResult
    /\ entry_visible' = opened_visible
    /\ writes' = [j \in DOMAIN psd |-> 0]
    /\ composite_calls' = <<>>
    /\ outcome' = [j \in DOMAIN psd |-> NotMeasured]
    /\ caught' = {}
    /\ pc' = "entry"
    /\ UNCHANGED <<size, hide_state, load_state>>
    /\ UNCHANGED <<calculate_state, conflict_state, process_state,
                   select_state, repeat_state>>

\* lines 304-305: detect_and_hide_signature_layers(psd) is called, after
\* the manual hiding
LoadDetect ==
    /\ HidingDone
    /\ auto_hide_signature
    /\ reference' = NoImage
    /\ image_area' = 0
    /\ originally_hidden' = <<>>
    /\ signature_layers' = <<>>
    /\ i' = 0
    /\ is_signature_sized' = FALSE
    /\ layer_size_percent' = Unbound
    /\ test_image' = NoImage
    /\ diff' = 0
    /\ result' = NoResult
    /\ entry_visible' = Visibility
    /\ writes' = [j \in DOMAIN psd |-> 0]
    /\ composite_calls' = <<>>
    /\ outcome' = [j \in DOMAIN psd |-> NotMeasured]
    /\ caught' = {}
    /\ pc' = "entry"
    /\ UNCHANGED <<psd, size, hide_state, load_state>>
    /\ UNCHANGED <<calculate_state, conflict_state, process_state,
                   select_state, repeat_state>>

\* the final composite is the next statement
AtComposite ==
    \/ HidingDone /\ ~auto_hide_signature
    \/ pc = "returned"

\* line 311: return psd.composite(force=True).convert("RGBA")
LoadComposite ==
    /\ AtComposite
    /\ loaded_image' = Visibility
    /\ pc' = "loaded"
    /\ UNCHANGED <<psd, detect_state, hide_state, auto_hide_signature,
                   opened_visible>>
    /\ UNCHANGED <<calculate_state, conflict_state, process_state,
                   select_state, repeat_state>>

\* line 311: the composite or the conversion raises
LoadCompositeFails ==
    /\ AtComposite
    /\ pc' = "load_raised"
    /\ UNCHANGED <<psd, detect_state, hide_state, load_state>>
    /\ UNCHANGED <<calculate_state, conflict_state, process_state,
                   select_state, repeat_state>>

NextLoad ==
    \/ LoadHide
    \/ HideBegin
    \/ HideByIndex
    \/ HideIndexOutOfRange
    \/ HideByName
    \/ HideNameNotFound
    \/ HideReturn
    \/ LoadDetect
    \/ Reference
    \/ ReferenceFails
    \/ SkipHidden
    \/ ZeroDivision
    \/ SkipLarge
    \/ Hide
    \/ Composite
    \/ CompositeFails
    \/ MeasureFails
    \/ Classify
    \/ Return
    \/ LoadComposite
    \/ LoadCompositeFails

SpecLoad == InitLoad /\ [][NextLoad]_vars

(***************************************************************************)
(* Properties of detect_and_hide_signature_layers                          *)
(***************************************************************************)

\* the call has returned its tuple
Returned == pc = "returned"

\* the layer j has been dealt with by the loop
Processed(j) == i > j

\* index j is in the signature list built so far
InSignature(j) == InList(j, signature_layers)

\* width * height of the canvas
CanvasArea == size[1] * size[2]

\* the bbox of layer j covers less than p percent of the canvas
AreaBelow(j, p) == LayerArea(psd[j].bbox) * 100 < p * CanvasArea

\* the bbox of layer j covers more than p percent of the canvas
AreaAbove(j, p) == LayerArea(psd[j].bbox) * 100 > p * CanvasArea

\* C1: after the call returns, every layer whose index is in the returned
\* signature list is hidden.
C1_SignatureLayersHidden ==
    Returned =>
        \A k \in 1..Len(result.value[1]) :
            psd[result.value[1][k]].visible = FALSE

\* C1 witness: a call has returned a non-empty signature list, and for
\* another layer the probe raised.
C1_Witness ==
    /\ Returned
    /\ Len(result.value[1]) >= 1
    /\ \E j \in DOMAIN psd : outcome[j] = Raised

\* C2: a layer that is neither in the returned signature list nor in the
\* returned originally-hidden list has, after the return, the visible flag
\* it had at call entry.
C2_OthersRestored ==
    Returned =>
        \A j \in DOMAIN psd :
            (~InList(j, result.value[1]) /\ ~InList(j, result.value[2]))
                => psd[j].visible = entry_visible[j]

\* C2 witness: a call has returned with a layer that was probed and
\* rejected, and a layer whose probe raised.
C2_Witness ==
    /\ Returned
    /\ \E j, k \in DOMAIN psd :
        /\ outcome[j] \in Scores
        /\ ~InList(j, result.value[1])
        /\ writes[j] = 2
        /\ outcome[k] = Raised

\* C3: the signature list and the originally-hidden list never share an
\* index, and a layer hidden at call entry is never written and never probed.
C3_HiddenUntouched ==
    /\ \A j \in DOMAIN psd :
           ~(InList(j, signature_layers) /\ InList(j, originally_hidden))
    /\ \A j \in DOMAIN psd :
           ~entry_visible[j] =>
               /\ writes[j] = 0
               /\ ~InList(j, composite_calls)
               /\ psd[j].visible = FALSE

\* C3 witness: a call has returned with a layer that was hidden at entry
\* and a layer classified as signature.
C3_Witness ==
    /\ Returned
    /\ Len(result.value[1]) >= 1
    /\ \E j \in DOMAIN psd : ~entry_visible[j] /\ InList(j, result.value[2])

\* C4: a layer whose bbox covers more than 50% of the canvas is never in the
\* signature list, is never written, and no test composite is rendered
\* for it.
C4_LargeLayerExcluded ==
    \A j \in DOMAIN psd :
        (HasBBox(psd[j]) /\ AreaAbove(j, 50)) =>
            /\ ~InSignature(j)
            /\ writes[j] = 0
            /\ ~InList(j, composite_calls)
            /\ psd[j].visible = entry_visible[j]

\* C4 witness: a call has returned, a visible layer over 50% of the canvas
\* was passed over, and another layer was classified as signature.
C4_Witness ==
    /\ Returned
    /\ Len(result.value[1]) >= 1
    /\ \E j \in DOMAIN psd :
        /\ entry_visible[j]
        /\ HasBBox(psd[j])
        /\ AreaAbove(j, 50)
        /\ AreaBelow(j, 100)

\* C5: a layer visible at entry, with a bbox under 15% of the canvas and a
\* probe that measured score d, is in the signature list (and hidden) exactly
\* if d > 0.01; otherwise it is visible again.
C5_SmallLayerRule ==
    \A j \in DOMAIN psd :
        (/\ Processed(j)
         /\ entry_visible[j]
         /\ HasBBox(psd[j])
         /\ AreaBelow(j, 15)
         /\ outcome[j] \in Scores) =>
            /\ InSignature(j) <=> outcome[j] > 1
            /\ psd[j].visible <=> outcome[j] <= 1

\* C5 witness: one small layer scored 0.02 and was classified, another
\* scored exactly 0.01 and was restored.
C5_Witness ==
    \E j, k \in DOMAIN psd :
        /\ Processed(j) /\ Processed(k)
        /\ HasBBox(psd[j]) /\ AreaBelow(j, 15)
        /\ HasBBox(psd[k]) /\ AreaBelow(k, 15)
        /\ outcome[j] = 2 /\ InSignature(j) /\ ~psd[j].visible
        /\ outcome[k] = 1 /\ ~InSignature(k) /\ psd[k].visible

\* C6: a layer visible at entry, with a bbox of at least 15% and under 50%
\* of the canvas and a probe that measured score d, is in the signature list
\* (and hidden) exactly if 5.0 < d < 25.0; otherwise it is visible again.
C6_MediumLayerRule ==
    \A j \in DOMAIN psd :
        (/\ Processed(j)
         /\ entry_visible[j]
         /\ HasBBox(psd[j])
         /\ ~AreaBelow(j, 15)
         /\ AreaBelow(j, 50)
         /\ outcome[j] \in Scores) =>
            /\ InSignature(j) <=> (500 < outcome[j] /\ outcome[j] < 2500)
            /\ psd[j].visible <=> ~(500 < outcome[j] /\ outcome[j] < 2500)

\* C6 witness: one medium layer scored 10.0 and was classified, another
\* scored exactly 25.0 and was restored.
C6_Witness ==
    \E j, k \in DOMAIN psd :
        /\ Processed(j) /\ Processed(k)
        /\ HasBBox(psd[j]) /\ ~AreaBelow(j, 15) /\ AreaBelow(j, 50)
        /\ HasBBox(psd[k]) /\ ~AreaBelow(k, 15) /\ AreaBelow(k, 50)
        /\ outcome[j] = 1000 /\ InSignature(j) /\ ~psd[j].visible
        /\ outcome[k] = 2500 /\ ~InSignature(k) /\ psd[k].visible


\* C7 (as claimed): a layer without bounds is never classified as signature
\* and, if it was visible at entry, is visible again once the loop is done
\* with it.
C7_UnboundedNeverSignature ==
    \A j \in DOMAIN psd :
        ~HasBBox(psd[j]) =>
            /\ ~InSignature(j)
            /\ (Processed(j) => psd[j].visible = entry_visible[j])

\* C8 (as claimed): when the test composite of layer i has been rendered,
\* it shows layer i hidden and every other layer as the reference
\* composite shows it.
C8_SingleChange ==
    pc = "measure" =>
        /\ test_image[i] = FALSE
        /\ \A j \in DOMAIN psd \ {i} : test_image[j] = reference[j]

\* the layers before j that were visible at entry and have a bbox
BoundedBefore(j) == {k \in 0..(j - 1) : entry_visible[k] /\ HasBBox(psd[k])}

\* greatest element of a non-empty set of integers
Maximum(S) == CHOOSE x \in S : \A y \in S : y <= x

\* what the loop decides for layer j at score d, given the document alone:
\* a layer without bbox is judged by the size of the last layer before it
\* that had one
ExpectedSignature(j, d) ==
    IF HasBBox(psd[j])
    THEN \/ AreaBelow(j, 15) /\ d > 1
         \/ ~AreaBelow(j, 15) /\ AreaBelow(j, 50) /\ 500 < d /\ d < 2500
    ELSE /\ BoundedBefore(j) # {}
         /\ AreaBelow(Maximum(BoundedBefore(j)), 50)
         /\ 500 < d /\ d < 2500

\* number of psd.composite calls made for layer j
CompositeCount(j) ==
    Cardinality({k \in 1..Len(composite_calls) : composite_calls[k] = j})

\* C9: a layer whose test render, crop or measurement raised is not in the
\* signature list and has its entry visibility back, the loop has moved on
\* to the next layer, and once the call returns every later layer that was
\* visible at entry and not over 50% of the canvas has been probed once and
\* classified by its own score alone, as the document determines.
C9_FailureConfined ==
    \A j \in DOMAIN psd :
        outcome[j] = Raised =>
            /\ Processed(j)
            /\ ~InSignature(j)
            /\ psd[j].visible = entry_visible[j]
            /\ pc = "raised" => result.error = "ZeroDivisionError"
            /\ Returned =>
                \A k \in DOMAIN psd :
                    (/\ k > j
                     /\ entry_visible[k]
                     /\ ~(HasBBox(psd[k]) /\ AreaAbove(k, 50))) =>
                        /\ CompositeCount(k) = 1
                        /\ outcome[k] # NotMeasured
                        /\ outcome[k] \in Scores =>
                            (InSignature(k) <=>
                                ExpectedSignature(k, outcome[k]))

\* C9 witness: the probe of one layer raised, and a later layer was probed
\* and classified as signature before the call returned.
C9_Witness ==
    /\ Returned
    /\ \E j, k \in DOMAIN psd :
        /\ j < k
        /\ outcome[j] = Raised
        /\ outcome[k] \in Scores
        /\ InSignature(k)

\* C10 (as claimed): the call never raises an exception to its caller.
C10_NeverRaises == pc # "raised"

\* C10 (amended): the call raises only when the reference composite fails,
\* before any layer is examined, or when the canvas area is zero and a
\* visible layer with a bbox is reached; every layer then has its entry
\* visibility.  A failure inside a probe leaves the layer visible and out
\* of the signature list, and a call that returns yields three elements.
C10_RaisesOnlyOutsideProbe ==
    /\ pc = "raised" =>
        /\ \/ /\ result.error = "composite"
              /\ composite_calls = <<-1>>
              /\ reference = NoImage
           \/ /\ result.error = "ZeroDivisionError"
              /\ CanvasArea = 0
              /\ entry_visible[i]
              /\ HasBBox(psd[i])
        /\ \A j \in DOMAIN psd : psd[j].visible = entry_visible[j]
    /\ \A j \in caught :
        /\ Processed(j)
        /\ psd[j].visible
        /\ ~InSignature(j)
    /\ Returned =>
        /\ Len(result.value) = 3
        /\ result.value[3] = FALSE

\* C10 witness: a call has returned although the test render of one layer
\* raised and the decision for another layer raised.
C10_Witness ==
    /\ Returned
    /\ \E j, k \in DOMAIN psd :
        /\ outcome[j] = Raised
        /\ outcome[k] \in Scores
        /\ k \in caught

\* C11: for the three-layer document (Background 100%, Content 40% scoring
\* 12.0, Signature 8% scoring 0.5, nothing hidden) the call returns the
\* signature list [1, 2] and an empty originally-hidden list, leaves layers
\* 1 and 2 hidden, and never writes the visible flag of layer 0.
C11_EndToEnd ==
    (/\ Returned
     /\ DOMAIN psd = 0..2
     /\ \A j \in 0..2 : psd[j].bbox = EndToEndDocument[j].bbox
     /\ \A j \in 0..2 : entry_visible[j]
     /\ CanvasArea = 100
     /\ outcome[1] = 1200
     /\ outcome[2] = 50) =>
        /\ result.value[1] = <<1, 2>>
        /\ result.value[2] = <<>>
        /\ ~psd[1].visible
        /\ ~psd[2].visible
        /\ writes[0] = 0
        /\ psd[0].visible

\* C11 witness: the call on the three-layer document has returned after
\* measuring 12.0 for Content and 0.5 for Signature.
C11_Witness ==
    /\ Returned
    /\ DOMAIN psd = 0..2
    /\ \A j \in 0..2 : psd[j].bbox = EndToEndDocument[j].bbox
    /\ \A j \in 0..2 : entry_visible[j]
    /\ CanvasArea = 100
    /\ outcome[0] = NotMeasured
    /\ outcome[1] = 1200
    /\ outcome[2] = 50

\* C12: for a document with zero layers the call returns an empty signature
\* list and an empty originally-hidden list.
C12_ZeroLayers ==
    (Returned /\ DOMAIN psd = {}) =>
        /\ result.value[1] = <<>>
        /\ result.value[2] = <<>>

\* C12 witness: the call on a document with zero layers has returned.
C12_Witness ==
    /\ Returned
    /\ DOMAIN psd = {}
    /\ composite_calls = <<-1>>

\* every layer of the document was hidden at call entry
AllHiddenAtEntry == \A j \in DOMAIN psd : ~entry_visible[j]

\* the list 0, 1, ..., n-1
RECURSIVE Indices(_)
Indices(n) == IF n = 0 THEN <<>> ELSE Append(Indices(n - 1), n - 1)

\* C13 (as claimed): for a document whose layers are all hidden at entry
\* the returned signature list and the returned originally-hidden list are
\* both empty and no visible flag is changed.
C13_AllHiddenEmptyLists ==
    (Returned /\ AllHiddenAtEntry) =>
        /\ result.value[1] = <<>>
        /\ result.value[2] = <<>>
        /\ \A j \in DOMAIN psd : writes[j] = 0 /\ ~psd[j].visible

\* C13 (amended): for a document whose layers are all hidden at entry the
\* call raises only if the reference composite fails; the returned signature
\* list is empty, the returned originally-hidden list holds every index in
\* order, and no visible flag is written.
C13_AllHiddenListed ==
    AllHiddenAtEntry =>
        /\ pc = "raised" => result.error = "composite"
        /\ \A j \in DOMAIN psd : writes[j] = 0 /\ ~psd[j].visible
        /\ Len(composite_calls) <= 1
        /\ Returned =>
            /\ result.value[1] = <<>>
            /\ result.value[2] = Indices(Len_psd)

\* C13 witness: the call has returned for a document of at least one layer,
\* all hidden at entry.
C13_Witness ==
    /\ Returned
    /\ AllHiddenAtEntry
    /\ Len_psd >= 1
    /\ size[1] = 0

\* C14: a call that returns has rendered the composite once before the
\* loop and then once for each layer that was visible at entry and not over
\* 50% of the canvas, and not at all for the other layers; no layer is ever
\* rendered for twice.
C14_RenderCount ==
    /\ \A j \in DOMAIN psd : CompositeCount(j) <= 1
    /\ CompositeCount(-1) <= 1
    /\ \A j \in DOMAIN psd :
        (~entry_visible[j] \/ (HasBBox(psd[j]) /\ AreaAbove(j, 50)))
            => CompositeCount(j) = 0
    /\ Returned =>
        /\ composite_calls[1] = -1
        /\ CompositeCount(-1) = 1
        /\ \A j \in DOMAIN psd :
            CompositeCount(j) =
                IF entry_visible[j] /\ ~(HasBBox(psd[j]) /\ AreaAbove(j, 50))
                THEN 1 ELSE 0
        /\ \A k \in 2..Len(composite_calls) :
            composite_calls[k - 1] < composite_calls[k]

\* C14 witness: a call has returned after rendering for one layer and
\* passing over another that was hidden or over 50% of the canvas.
C14_Witness ==
    /\ Returned
    /\ \E j, k \in DOMAIN psd :
        /\ CompositeCount(j) = 1
        /\ CompositeCount(k) = 0
    /\ Len(composite_calls) = 2

(***************************************************************************)
(* Properties of calculate_image_difference                                *)
(***************************************************************************)

\* the exact sum of a sequence of integers
RECURSIVE ExactSumBetween(_, _, _)
ExactSumBetween(a, lo, hi) ==
    IF lo > hi THEN 0
    ELSE IF lo = hi THEN a[lo]
    ELSE LET mid == (lo + hi) \div 2
         IN  ExactSumBetween(a, lo, mid) + ExactSumBetween(a, mid + 1, hi)

ExactSum(a, n) == ExactSumBetween(a, 1, n)

\* the float32 number nearest to a / b, for integers a >= 0 and b > 0
NearestF32(a, b) ==
    IF a = 0 THEN [m |-> 0, e |-> 0]
    ELSE ExtendQuotient(a \div b, a % b, b, 0)

\* the float32 numbers 100.0 and 0.0
HundredF32 == NormalizeF32(100, 0)
ZeroF32 == NormalizeF32(0, 0)

\* x <= y for float32 numbers x, y >= 0
LessEqF32(x, y) ==
    \/ x.m = 0
    \/ y.m # 0 /\ (x.e < y.e \/ (x.e = y.e /\ x.m <= y.m))

\* x and y are at most two float32 steps apart
CloseF32(x, y) ==
    \/ x.m = 0 /\ y.m = 0
    \/ x.m # 0 /\ y.m # 0 /\ x.e = y.e
          /\ x.m - y.m <= 2 /\ y.m - x.m <= 2
    \/ x.m # 0 /\ y.m # 0 /\ x.e = y.e + 1
          /\ 2 * x.m - y.m <= 2
    \/ x.m # 0 /\ y.m # 0 /\ y.e = x.e + 1
          /\ 2 * y.m - x.m <= 2

\* every channel of every pixel of img is v
AllChannels(img, v) ==
    \A k \in DOMAIN img.data : \A c \in DOMAIN img.data[k] : img.data[k][c] = v

\* the two regions have the same pixel dimensions
SameDimensions == img1.size = img2.size

\* the value 100 * mean((a - b)^2) / 65025, rounded once to float32
ExactScore ==
    LET sq == SquaredDifferences(ConvertRGB(img1), ConvertRGB(img2))
    IN  NearestF32(100 * ExactSum(sq, Len(sq)), 65025 * Len(sq))

\* C15 (as claimed): for two regions of the same size the score is exactly
\* 100 when one is all black and the other all white, exactly 0 when they
\* are identical, and always a value from 0 to 100 that equals
\* 100 * mean((a - b)^2) / 65025 (up to the rounding of the last digits).
C15_DifferenceScale ==
    (pc = "calculated" /\ SameDimensions) =>
        /\ normalized.kind = "returned"
        /\ ((AllChannels(img1, 0) /\ AllChannels(img2, 255))
            \/ (AllChannels(img1, 255) /\ AllChannels(img2, 0)))
                => normalized.value = HundredF32
        /\ ConvertRGB(img1) = ConvertRGB(img2) => normalized.value = ZeroF32
        /\ LessEqF32(normalized.value, HundredF32)
        /\ CloseF32(normalized.value, ExactScore)

\* C16 (as claimed): when the two regions differ in pixel dimensions no
\* score is produced: the call raises, which the caller handles as a failed
\* probe.
C16_MismatchRaises ==
    (pc = "calculated" /\ ~SameDimensions) => normalized.kind = "raised"

(***************************************************************************)
(* Properties of hide_layers_in_psd                                        *)
(***************************************************************************)

\* the loop is at a layer spec
AtSpec == pc = "hide_loop" /\ next_spec <= Len(layers_to_hide.items)

\* the layer spec as given in layers_to_hide
GivenSpec == layers_to_hide.items[next_spec]

\* the layer spec is an integer, as an int or written in digits
IsIndexSpec(layer_spec) ==
    layer_spec.kind = "int" \/ layer_spec.str \in {"0", "1", "7"}

\* the integer of an index spec
IndexOf(layer_spec) ==
    IF layer_spec.kind = "int" THEN layer_spec.int
    ELSE CASE layer_spec.str = "0" -> 0
           [] layer_spec.str = "1" -> 1
           [] layer_spec.str = "7" -> 7

\* the step changes the visible flag of layer j to False and of no other
HidesExactly(j) ==
    /\ DOMAIN psd' = DOMAIN psd
    /\ ~psd'[j].visible
    /\ \A k \in DOMAIN psd : k # j => psd'[k] = psd[k]

\* the step handles one spec, which adds n to the count
Counts(n) == hidden_count' = hidden_count + n /\ next_spec' = next_spec + 1

\* the call is made with no list or an empty one
NothingToHide == layers_to_hide.is_none \/ Len(layers_to_hide.items) = 0

\* C17: an integer spec k with 0 <= k < len(psd) sets exactly layer k's
\* visible flag to False and adds one to the count; an integer out of that
\* range changes no flag and adds nothing.  With an empty or missing list
\* the call returns 0 and changes no layer.  The value returned is the count.
C17_IndexSpec ==
    [][/\ (AtSpec /\ IsIndexSpec(GivenSpec)) =>
            IF 0 <= IndexOf(GivenSpec) /\ IndexOf(GivenSpec) < Len_psd
            THEN HidesExactly(IndexOf(GivenSpec)) /\ Counts(1)
            ELSE psd' = psd /\ Counts(0)
       /\ (pc = "hide_entry" /\ NothingToHide) =>
            /\ psd' = psd
            /\ pc' = "hide_returned"
            /\ hide_result'.kind = "returned" /\ hide_result'.value = 0
       /\ (pc # "hide_returned" /\ pc' = "hide_returned") =>
            /\ psd' = psd
            /\ hide_result'.kind = "returned"
            /\ hide_result'.value = hidden_count]_vars

\* a call with an index in range followed by one out of range has returned 1
\* with the layer hidden
C17_Witness ==
    /\ pc = "hide_returned"
    /\ Len(layers_to_hide.items) = 2
    /\ layers_to_hide.items[1] = IntSpec(Len_psd - 1)
    /\ layers_to_hide.items[2] = IntSpec(Len_psd)
    /\ Len_psd > 0
    /\ ~psd[Len_psd - 1].visible
    /\ hide_result.value = 1

\* the layers whose name equals the spec ignoring case
NamedLike(layer_spec) ==
    {j \in DOMAIN layer_names :
        /\ layer_names[j] # ""
        /\ Lower(layer_names[j]) = Lower(layer_spec.str)}

\* C18: a name spec hides exactly one layer, the lowest-index layer whose
\* name equals the spec ignoring case, and adds one to the count; when no
\* layer has such a name (layers without a name included) no flag changes
\* and nothing is added.
C18_NameSpec ==
    [][(AtSpec /\ ~IsIndexSpec(GivenSpec)) =>
            IF NamedLike(GivenSpec) # {}
            THEN /\ \E j \in NamedLike(GivenSpec) :
                        /\ \A k \in NamedLike(GivenSpec) : j <= k
                        /\ HidesExactly(j)
                 /\ Counts(1)
            ELSE psd' = psd /\ Counts(0)]_vars

\* two layers are named Sig; the call with "SIG" and then a name no layer
\* has returned 1 with only the first one hidden
C18_Witness ==
    /\ pc = "hide_returned"
    /\ Len_psd = 2
    /\ layer_names[0] = "Sig" /\ layer_names[1] = "Sig"
    /\ layers_to_hide.items = <<StrSpec("SIG"), StrSpec("bg")>>
    /\ ~psd[0].visible /\ psd[1].visible
    /\ hide_result.value = 1

(***************************************************************************)
(* Properties of handle_file_conflict                                      *)
(***************************************************************************)

\* the pair the call returned
ReturnedPair ==
    <<conflict_return.should_process, conflict_return.global_action>>

\* C19: the call decides without a prompt in three cases: the output path
\* does not exist, (True, None) whatever the flags; it exists and force is
\* set, (True, None) also when skip_existing is set; it exists, force is not
\* set and skip_existing is, (False, None).  No global action is returned in
\* these cases.
C19_DecidedWithoutPrompt ==
    pc = "conflict_returned" =>
        /\ ~conflict_call.exists =>
              ReturnedPair = <<TRUE, NoAction>> /\ conflict_return.prompts = 0
        /\ (conflict_call.exists /\ conflict_call.force) =>
              ReturnedPair = <<TRUE, NoAction>> /\ conflict_return.prompts = 0
        /\ (conflict_call.exists /\ ~conflict_call.force
                /\ conflict_call.skip_existing) =>
              ReturnedPair = <<FALSE, NoAction>> /\ conflict_return.prompts = 0

\* an existing output with both flags set and an answer waiting on the
\* standard input: the call returned (True, None) without reading it
C19_Witness ==
    /\ pc = "conflict_returned"
    /\ conflict_call.exists
    /\ conflict_call.force
    /\ conflict_call.skip_existing
    /\ conflict_call.stdin = <<"s">>
    /\ ReturnedPair = <<TRUE, NoAction>>

(***************************************************************************)
(* Properties of process_image_files                                       *)
(***************************************************************************)

\* the step prints "Error processing ..." for the current file: an
\* exception raised for it was caught
FailureStep ==
    /\ Len(messages') = Len(messages) + 1
    /\ messages'[Len(messages')].kind = "error"
    /\ messages'[Len(messages')].file = image_file

\* after the step the count, the outputs and the skipped files are those of
\* the moment the file was taken, and the loop is at the next file
NothingForThisFile ==
    /\ processed_count' = iteration_entry.processed_count
    /\ outputs' = iteration_entry.outputs
    /\ skipped_files' = iteration_entry.skipped_files
    /\ pc' = "loop"
    /\ file_index' = file_index
    /\ image_files' = image_files
    /\ args' = args

\* C20 (as claimed): an exception raised while loading or processing a file
\* is confined to it: no output is written and processed_count is not
\* incremented for it, and the later files are processed exactly as if the
\* file were absent: the loop goes on with the next file, with every local
\* it carries from file to file as it was before the failing file.
C20_FailureConfined ==
    [][FailureStep =>
          /\ NothingForThisFile
          /\ global_action' = iteration_entry.global_action]_vars

\* C20 (amended): as above, except that an answer "overwrite all" given at
\* the prompt for the failing file stays in force for the later files.
C20_FailureConfinedButAnswer ==
    [][FailureStep =>
          /\ NothingForThisFile
          /\ \/ global_action' = iteration_entry.global_action
             \/ /\ iteration_entry.global_action = NoAction
                /\ global_action' = "overwrite_all"
                /\ conflict_calls # <<>>
                /\ conflict_calls[Len(conflict_calls)] = image_file]_vars

\* the save of file 1 raised after the answer "overwrite all"; file 2 was
\* then saved without a call of handle_file_conflict
C20_Witness ==
    /\ pc = "done"
    /\ Len(image_files) = 2
    /\ [kind |-> "error", file |-> 1] \in {messages[k] : k \in DOMAIN messages}
    /\ outputs = {2}
    /\ processed_count = 1
    /\ conflict_calls = <<1>>
    /\ global_action = "overwrite_all"

\* the size of the loaded image after the crop step
CroppedSize == Cropped(source_image.size, args)

\* the signature, placed at its offset from the right and the bottom, does
\* not fit in an image of this size
DoesNotFit(image_size) ==
    \/ image_size[1] - SignatureSize[1] - Offsets(image_size, args)[1] < 0
    \/ image_size[2] - SignatureSize[2] - Offsets(image_size, args)[2] < 0

\* C21: with a signature, when the cropped image is too small for the
\* signature at its offset, the file is skipped: no output is written for
\* it, it is counted neither as processed nor as skipped by a conflict, and
\* the loop continues with the next file.
C21_TooSmallSkipped ==
    [][(/\ pc = "sign"
        /\ args.apply_signature
        /\ DoesNotFit(CroppedSize)
        /\ pc' # "cancelled") =>
            /\ NothingForThisFile
            /\ saved_images' = saved_images
            /\ conflict_calls' = conflict_calls
            /\ global_action' = global_action]_vars

\* file 1 was too small for the signature and file 2 was saved
C21_Witness ==
    /\ pc = "done"
    /\ Len(image_files) = 2
    /\ [kind |-> "signature too large", file |-> 1]
           \in {messages[k] : k \in DOMAIN messages}
    /\ outputs = {2}
    /\ processed_count = 1
    /\ skipped_files = <<>>

\* the step raises a KeyboardInterrupt while a file is handled
InterruptStep == Len(interrupts') > Len(interrupts)

\* the step prints the cancellation of the batch
CancellationPrinted ==
    /\ Len(messages') = Len(messages) + 1
    /\ messages'[Len(messages')].kind = "cancelled"

\* C22 (as claimed): a KeyboardInterrupt while a file is handled stops the
\* batch: the cancellation is printed and the function returns, the outputs
\* written so far remain, and from then on no file is loaded or saved.
C22_InterruptStops ==
    [][/\ InterruptStep =>
            /\ pc' = "cancelled"
            /\ CancellationPrinted
            /\ outputs' = outputs
            /\ saved_images' = saved_images
       /\ interrupts # <<>> =>
            /\ file_index' = file_index
            /\ outputs' = outputs
            /\ saved_images' = saved_images]_vars

(***************************************************************************)
(* Properties of the selection of the input files                          *)
(***************************************************************************)

\* the name without its last extension ends with one of the built-in
\* suffixes, with the non-empty suffix of the run or with an exclude pattern
LooksLikeOutput(name) ==
    LET stem == Stem(name)
        EndsIn(suffix) ==
            /\ Len(stem) >= Len(suffix)
            /\ \A k \in 1..Len(suffix) :
                   stem[Len(stem) - Len(suffix) + k] = suffix[k]
    IN  \/ \E suffix \in CommonSuffixes : EndsIn(suffix)
        \/ select_args.suffix # <<>> /\ EndsIn(select_args.suffix)
        \/ \E suffix \in select_args.exclude_patterns : EndsIn(suffix)

\* C23: no file that looks like an output is selected as input, so no output
\* is written for such a file; and with a non-empty suffix no file written
\* by a run is selected by that run or a later one.
C23_OutputsNotSelected ==
    /\ \A name \in found_files : ~LooksLikeOutput(name)
    /\ \A w \in written : ~LooksLikeOutput(w.input)
    /\ select_args.suffix # <<>> =>
           \A w \in written : w.output \notin found_files

\* the first run wrote a_x.png for a.png with the suffix _x, which no
\* built-in suffix covers; the second run selected a.png again and not
\* a_x.png
C23_Witness ==
    /\ run = 2
    /\ pc = "files"
    /\ select_args.suffix = <<"_", "x">>
    /\ [input |-> <<"a", ".", "p", "n", "g">>,
        output |-> <<"a", "_", "x", ".", "p", "n", "g">>,
        run |-> 1] \in written
    /\ <<"a", "_", "x", ".", "p", "n", "g">> \in directory
    /\ <<"a", ".", "p", "n", "g">> \in found_files
    /\ <<"a", "_", "x", ".", "p", "n", "g">> \notin found_files

\* the order of the steps on one file
StepOrder ==
    {<<"load", "crop">>, <<"crop", "sign">>, <<"sign", "resize">>,
     <<"resize", "conflict">>, <<"conflict", "save">>}

\* the larger of the two dimensions
LargerDimension(image_size) ==
    IF image_size[1] > image_size[2] THEN image_size[1] ELSE image_size[2]

\* the step saves an image
SaveStep == Len(saved_images') = Len(saved_images) + 1

\* the image the step saves
SavedImage == saved_images'[Len(saved_images')].image

\* C24: the steps on a file come in the order load, crop, signature,
\* resize, conflict check, save.  The signature position of a saved image is
\* computed from the dimensions of the cropped image, its size is the
\* cropped size put through the max-dimension resize, and its larger
\* dimension does not exceed max_dimension when one is given.
C24_StepOrder ==
    [][/\ (pc' # pc /\ pc' \notin {"loop", "cancelled", "done"}
              /\ pc # "loop") => <<pc, pc'>> \in StepOrder
       /\ (pc = "loop" /\ pc' # pc) => pc' \in {"load", "done", "cancelled"}
       /\ conflict_calls' # conflict_calls => pc = "conflict"
       /\ SaveStep =>
            /\ pc = "save"
            /\ SavedImage.size =
                   ResizedSize(CroppedSize, args.max_dimension)
            /\ args.apply_signature =>
                   SavedImage.signature =
                       <<CroppedSize[1] - SignatureSize[1]
                             - Offsets(CroppedSize, args)[1],
                         CroppedSize[2] - SignatureSize[2]
                             - Offsets(CroppedSize, args)[2]>>
            /\ ~args.apply_signature => SavedImage.signature = <<>>
            /\ args.max_dimension # None =>
                   LargerDimension(SavedImage.size) <= args.max_dimension
      ]_vars

\* file 1, 20x5, was cropped to 8x5 and signed at (4, 1); file 2, 10x10, was
\* signed at (6, 6) and resized to 8x8
C24_Witness ==
    /\ args.max_dimension = 8
    /\ args.offset_percent = None
    /\ saved_images =
           <<[file |-> 1,
              image |-> [size |-> <<8, 5>>, signature |-> <<4, 1>>]],
             [file |-> 2,
              image |-> [size |-> <<8, 8>>, signature |-> <<6, 6>>]]>>

(***************************************************************************)
(* Further properties of detect_and_hide_signature_layers                  *)
(***************************************************************************)

\* the bbox of layer j covers exactly half of the canvas
ExactlyHalf(j) ==
    /\ HasBBox(psd[j])
    /\ CanvasArea > 0
    /\ 2 * LayerArea(psd[j].bbox) = CanvasArea

\* C25: a layer with bounds of exactly 50% of the canvas, visible at entry,
\* is not passed over by the large-layer filter: it is hidden and one test
\* composite is rendered for it.  It is never classified as signature,
\* whatever its score, and it is visible again when the loop has dealt with
\* it, hence when the call returns.
C25_ExactlyHalf ==
    \A j \in DOMAIN psd :
        (Processed(j) /\ entry_visible[j] /\ ExactlyHalf(j)) =>
            /\ writes[j] = 2
            /\ CompositeCount(j) = 1
            /\ ~InSignature(j)
            /\ psd[j].visible

\* the call returned; a layer of exactly 50% scored 10.0, inside the band of
\* the medium rule, and is visible and not in the signature list
C25_Witness ==
    /\ Returned
    /\ \E j \in DOMAIN psd :
        /\ entry_visible[j]
        /\ ExactlyHalf(j)
        /\ outcome[j] = 1000
        /\ ~InSignature(j)
        /\ psd[j].visible

\* the layers that are hidden now
HiddenNow == {j \in DOMAIN psd : ~psd[j].visible}

\* the layers of a list of indices
ListSet(list) == {list[k] : k \in DOMAIN list}

\* the layer being probed: hidden for its test composite and not yet decided
Probed == IF pc \in {"composite", "measure"} THEN {i} ELSE {}

\* the loop has been entered (and possibly left by a return or by the
\* ZeroDivisionError of line 217)
InLoop ==
    \/ pc \in {"loop", "composite", "measure", "returned"}
    \/ pc = "raised" /\ result.error = "ZeroDivisionError"

\* C26: at every point of the loop the hidden layers are the originally
\* hidden ones, the ones appended to the signature list so far and, during a
\* probe, the one layer being probed; so stopping the call at any point
\* leaves changed at most the signature layers found so far and that one
\* layer.
C26_HiddenSetInLoop ==
    InLoop =>
        /\ HiddenNow = ListSet(originally_hidden)
                           \cup ListSet(signature_layers) \cup Probed
        /\ Cardinality(Probed) <= 1
        /\ {j \in DOMAIN psd : psd[j].visible # entry_visible[j]}
               \subseteq ListSet(signature_layers) \cup Probed

\* in the three-layer document layer 1 is in the signature list and layer 2
\* is being probed: exactly these two are hidden
C26_Witness ==
    /\ pc = "measure"
    /\ i = 2
    /\ signature_layers = <<1>>
    /\ HiddenNow = {1, 2}

ReferenceFailed == result.kind = "raised" /\ result.error = "composite"

\* C30: when the initial reference composite fails, the error reaches the
\* caller before any layer is examined (nothing recorded as hidden, no layer
\* measured, written or rendered) and every visible flag has its entry value
C30_ReferenceFailure ==
    ReferenceFailed =>
        /\ pc = "raised"
        /\ result.kind = "raised" /\ result.error = "composite"
        /\ composite_calls = <<-1>>
        /\ i = 0
        /\ originally_hidden = <<>> /\ signature_layers = <<>>
        /\ caught = {}
        /\ Visibility = entry_visible
        /\ \A j \in DOMAIN psd : writes[j] = 0 /\ outcome[j] = NotMeasured

\* a two-layer document whose first layer is visible and signature-sized,
\* left untouched by the failed call
C30_Witness ==
    /\ ReferenceFailed
    /\ pc = "raised"
    /\ Len_psd = 2
    /\ psd[0].visible /\ psd[0].bbox = <<0, 0, 1, 5>>
    /\ ~psd[1].visible
    /\ size = <<10, 10>>

\* the second of the two calls is running or has ended
SecondCall == earlier_calls = 1

\* the second call has recorded the hidden layers (lines 197-200)
SecondRecorded == SecondCall /\ pc \notin {"entry", "raised"}

\* C29: in a second call on the same document every layer of the first
\* call's signature list is in the second call's originally-hidden list and
\* never in its signature list, and a layer hidden after the first call is
\* hidden throughout and after the second
C29_SecondCall ==
    SecondCall =>
        /\ \A j \in DOMAIN psd :
              InList(j, first_call.value[1]) =>
                  /\ SecondRecorded => InList(j, originally_hidden)
                  /\ ~InList(j, signature_layers)
                  /\ Returned => /\ InList(j, result.value[2])
                                 /\ ~InList(j, result.value[1])
        /\ \A j \in DOMAIN psd :
              ~first_call.value[3][j] => ~psd[j].visible

\* the first call found layer 0 to be a signature, the second call finds
\* layer 1 to be one, and both are hidden at the end
C29_Witness ==
    /\ SecondCall
    /\ Returned
    /\ first_call.value[1] = <<0>>
    /\ result.value[1] = <<1>>
    /\ result.value[2] = <<0>>
    /\ ~psd[0].visible /\ ~psd[1].visible

\* the layers a spec of layers_to_hide stands for: the layer of an index in
\* range, or the first layer carrying the name
HandHidden ==
    {j \in DOMAIN psd :
        \E k \in 1..Len(layers_to_hide.items) :
            LET layer_spec == layers_to_hide.items[k]
            IN  IF IsIndexSpec(layer_spec)
                THEN IndexOf(layer_spec) = j
                ELSE /\ j \in NamedLike(layer_spec)
                     /\ \A other \in NamedLike(layer_spec) : j <= other}

\* the detection has been entered by this load
DetectionEntered ==
    \/ pc \in {"entry", "loop", "composite", "measure", "returned", "raised"}
    \/ pc \in {"loaded", "load_raised"} /\ auto_hide_signature

\* C28: a layer hidden by hide_layers_in_psd is hidden when the detection is
\* entered, is recorded in originally_hidden, is never written, rendered for
\* or measured by the detection, is never in the signature list, and is
\* hidden in the composite load_image_file returns
C28_HandHiddenStaysHidden ==
    \A j \in HandHidden :
        /\ DetectionEntered =>
              /\ ~entry_visible[j]
              /\ ~psd[j].visible
              /\ writes[j] = 0
              /\ CompositeCount(j) = 0
              /\ outcome[j] = NotMeasured
              /\ j \notin caught
              /\ ~InList(j, signature_layers)
              /\ pc \in {"loop", "composite", "measure", "returned"} =>
                     InList(j, originally_hidden)
              /\ result.kind = "returned" =>
                     /\ InList(j, result.value[2])
                     /\ ~InList(j, result.value[1])
        /\ pc = "loaded" => ~loaded_image[j]

\* layer 0, visible in the file, was hidden by hand, the detection found
\* layer 1 to be a signature, and the composite returned shows neither
C28_Witness ==
    /\ pc = "loaded"
    /\ auto_hide_signature
    /\ Len_psd = 2
    /\ opened_visible[0] /\ opened_visible[1]
    /\ HandHidden = {0}
    /\ result.value[1] = <<1>>
    /\ result.value[2] = <<0>>
    /\ loaded_image = [j \in DOMAIN psd |-> FALSE]

=============================================================================
